---- MODULE Spec2Model ----
(***************************************************************************)
(* A model of bury.js (node-bury): one Bury instance over a carrier        *)
(* raster, its constructor, setMessage, getMessage, and the static         *)
(* testPasswordCompatibility.                                              *)
(*                                                                         *)
(* Bytes are integers 0..255, a pixel is the integer gd returns from       *)
(* imageColorAt (red*65536 + green*256 + blue), an image is the sequence   *)
(* of its pixels in row-major order (pixel p is element p+1).              *)
(*                                                                         *)
(* The libraries the program calls are not part of the repository.  They   *)
(* are represented by small deterministic functions with the same          *)
(* signature: SHA256 by a table of real digests of the passwords used,     *)
(* the seeded generator of `mersenne` by a linear congruential generator,  *)
(* AES and MD5 by byte-wise sums, bzip2 by a framing function.             *)
(***************************************************************************)
EXTENDS Integers, Sequences, FiniteSets, TLC

(***************************************************************************)
(* Program constants.                                                      *)
(***************************************************************************)
VERSION_CODE == 2
MIN_PASS_LENGTH == 8
HEADER_LENGTH == 9
IV_SIZE == 16
MD5_SIZE == 16
AES_BLOCK == 16
STR_PAD_LEFT == 1
STR_PAD_RIGHT == 2
SPACE == 32

\* The value JavaScript calls undefined, where the program stores it in a
\* numeric variable (binbuf.unpack returns undefined on a short array).
UNDEFINED == -2

\* Largest integer TLC represents; a 32-bit unsigned field above it
\* is held at this value (every buffer of the model is far shorter).
MAX_INT == 2147483647

(***************************************************************************)
(* Bounds of the model.                                                    *)
(***************************************************************************)
\* Calls made in one run: setMessage, getMessage, and reopening the output
\* image with a new instance.
MaxCalls == 3
\* Iterations one level of a loop runs before the next level takes over
\* (loops are unrolled in chunks to bound the evaluation depth).
Chunk == 24

(***************************************************************************)
(* Arithmetic helpers for JavaScript's integer operators.                  *)
(***************************************************************************)
Min(a, b) == IF a < b THEN a ELSE b
Max(a, b) == IF a > b THEN a ELSE b

Pow2(k) == CASE k = 0 -> 1 [] k = 1 -> 2 [] k = 2 -> 4 [] k = 3 -> 8
             [] k = 4 -> 16 [] k = 5 -> 32 [] k = 6 -> 64 [] k = 7 -> 128
             [] k = 8 -> 256 [] k = 16 -> 65536 [] k = 24 -> 16777216

\* (v >> k) & 1
BitOf(v, k) == (v \div Pow2(k)) % 2

\* a ^ b for bytes
RECURSIVE XorFrom(_, _, _)
XorFrom(a, b, k) ==
  IF k > 7 THEN 0
  ELSE Pow2(k) * ((BitOf(a, k) + BitOf(b, k)) % 2) + XorFrom(a, b, k + 1)

Xor8(a, b) == XorFrom(a, b, 0)

\* (a * b) % m, computed without leaving 32 bits (JavaScript computes the
\* product exactly in a double).
MulMod(a, b, m) == ((a % m) * (b % m)) % m

\* Array.prototype.slice / Buffer.slice with JavaScript's index rules.
SliceIndex(len, i) == IF i < 0 THEN Max(len + i, 0) ELSE Min(i, len)

Slice(a, start, end) ==
  LET s == SliceIndex(Len(a), start)
      e == SliceIndex(Len(a), end)
  IN  IF e <= s THEN <<>> ELSE SubSeq(a, s + 1, e)

SliceFrom(a, start) == Slice(a, start, Len(a))

\* Array(n).join(pad): n-1 copies of the pad character for n >= 1.
ArrayJoin(n, padchar) == [i \in 1..Max(n - 1, 0) |-> padchar]

(***************************************************************************)
(* pad(), toByteArray(), toWordArray(), strncmp()                          *)
(***************************************************************************)
pad(str, len, padchar, dir) ==
  IF len + 1 >= Len(str)
  THEN IF dir = STR_PAD_LEFT
       THEN ArrayJoin(len + 1 - Len(str), padchar) \o str
       ELSE str \o ArrayJoin(len + 1 - Len(str), padchar)
  ELSE str

\* '     ThisFileExtensionWasBad.txt'
BadExtensionName ==
  <<32, 32, 32, 32, 32, 84, 104, 105, 115, 70, 105, 108, 101, 69, 120,
     116, 101, 110, 115, 105, 111, 110, 87, 97, 115, 66, 97, 100, 46, 116,
     120, 116>>

\* str.substr(start): the characters from position start (0-based) on.
Substr(str, start) == SubSeq(str, start + 1, Len(str))

\* A normalize_filename that keeps the first 32 characters of a long name.
normalize_filename_keeps_head(base_name) ==
  LET base_len == Len(base_name)
  IN  IF base_len = 0 THEN BadExtensionName
      ELSE IF base_len > 32 THEN SubSeq(base_name, 1, 32)
      ELSE pad(base_name, 32, SPACE, STR_PAD_LEFT)

\* normalize_filename(base_name); pad(base_name) is pad(base_name, 32, ' ',
\* STR_PAD_LEFT) by the defaults of pad.
normalize_filename(base_name) ==
  LET base_len == Len(base_name)
  IN  IF base_len = 0 THEN BadExtensionName
      ELSE IF base_len > 32 THEN Substr(base_name, base_len - 32)
      ELSE pad(base_name, 32, SPACE, STR_PAD_LEFT)

\* Words are signed 32-bit integers; >> is an arithmetic shift.
toByteArray(word_array) ==
  [i \in 1..(4 * Len(word_array)) |->
     LET w == word_array[((i - 1) \div 4) + 1]
         k == (i - 1) % 4
     IN  CASE k = 0 -> (w \div 16777216) % 256
           [] k = 1 -> (w \div 65536) % 256
           [] k = 2 -> (w \div 256) % 256
           [] k = 3 -> w % 256]

\* byte << 24 wraps into the sign bit.
ToInt32Word(b0, b1, b2, b3) ==
  (IF b0 >= 128 THEN b0 - 256 ELSE b0) * 16777216 + b1 * 65536 + b2 * 256 + b3

toWordArray(byte_array) ==
  [w \in 1..(Len(byte_array) \div 4) |->
     ToInt32Word(byte_array[4 * w - 3], byte_array[4 * w - 2],
                 byte_array[4 * w - 1], byte_array[4 * w])]

\* a.substring(0, n) == b.substring(0, n)
strncmp(a, b, n) == Slice(a, 0, n) = Slice(b, 0, n)

(***************************************************************************)
(* Passwords and CryptoJS.SHA256.                                          *)
(***************************************************************************)
Passwords == {"saddroPs3", "saddroPs540", "password1", "password109", "short"}

\* CryptoJS.SHA256(pw).words
SHA256(pw) ==
  CASE pw = "saddroPs3" ->
         <<100137668, -1370147691, 1161672403, 902003903,
           -1636873360, 1626007993, 1432115227, 2059581333>>
    [] pw = "saddroPs540" ->
         <<292179270, -1189153543, -1416280564, -1125918471,
           1024754400, 1329756418, -1591270038, 790125240>>
    [] pw = "password1" ->
         <<185914625, -1517009878, 29787541, 1102885864,
           374151229, 848526213, 406144047, 1775618382>>
    [] pw = "password109" ->
         <<502324238, -80803662, -1934875505, 1489851367,
           -1297163182, -1065928843, 45086367, 617028448>>
    [] pw = "short" ->
         <<-105904245, 1576376018, -367460084, 1817856,
           -1637540382, -981561417, -480906466, -1177290951>>

\* The words of the digest after `rounds` further applications of SHA256 to
\* the digest (rounds is a function of the password's digest).
SHA256Rounds(pw, rounds) ==
  CASE pw = "saddroPs3" /\ rounds = 482 ->
         <<120677407, -1751895258, 1267286472, 1165928752,
           1912486105, 114770392, 406918687, -390430326>>
    [] pw = "saddroPs540" /\ rounds = 213 ->
         <<-413073832, -498277825, 1922557729, 98238493,
           -1288591237, -908324849, 580470070, -1812119209>>
    [] pw = "password1" /\ rounds = 5333 ->
         <<-1334417255, -2109789238, 1829236917, -1319800012,
           -714628241, 406459905, 551398441, 1483717363>>
    [] pw = "password109" /\ rounds = 7660 ->
         <<-893372242, -1412600786, -1570789251, 1275664379,
           -641501675, -464767845, -1956929854, -1688938541>>
    [] pw = "short" /\ rounds = 63 ->
         <<1735817116, 62181784, 1886782682, 221552172,
           1754451875, -154232827, -1644791583, 1607185420>>

\* mixer_array[j] after the loop: the XOR of seven digest bytes, starting
\* from undefined (which ^ treats as 0).
RECURSIVE Mixer(_, _, _)
Mixer(hash_arr, first, i) ==
  IF i > 6 THEN 0
  ELSE Xor8(hash_arr[first + i + 1], Mixer(hash_arr, first, i + 1))

\* mixer_array after the loop.
mixer_array(hash_arr) ==
  <<Mixer(hash_arr, 4, 0), Mixer(hash_arr, 11, 0),
    Mixer(hash_arr, 18, 0), Mixer(hash_arr, 25, 0)>>

\* A recombination whose first term is mixer_array[0] reduced modulo 128,
\* without the multiplication.
params_stride_seed_keeps_first(hash_arr) ==
  LET mixed == mixer_array(hash_arr)
  IN  (mixed[1] % 128) + (mixed[2] * 65536) + (mixed[3] * 256) + mixed[4]

\* params.stride_seed
params_stride_seed(hash_arr) ==
  LET mixed == mixer_array(hash_arr)
  IN  MulMod(mixed[1], 16777216, 128) + (mixed[2] * 65536) + (mixed[3] * 256) + mixed[4]

deriveParamsFromKey(pw) ==
  LET hash_arr == toByteArray(SHA256(pw))
      rounds == ((hash_arr[2] * 256) + hash_arr[3]) % 9000
  IN  [offset |-> hash_arr[1],
       max_stride |-> 2 + (hash_arr[4] % 14),
       hash |-> hash_arr,
       stride_seed |-> params_stride_seed(hash_arr),
       key |-> toByteArray(SHA256Rounds(pw, rounds)),
       rounds |-> rounds]

(***************************************************************************)
(* The seeded generator: rng.seed(s) then successive rng.rand(N), each a   *)
(* value in [0, N).  The library is a Mersenne twister; the model draws    *)
(* from a linear congruential generator whose draws give, for every pair   *)
(* and triple of Passwords, the result of testPasswordCompatibility that   *)
(* the twister gives.                                                      *)
(***************************************************************************)
RNG_MOD == 65537

rng_seed(s) == s % RNG_MOD

rng_next(state) == (state * 75 + 73) % RNG_MOD

\* Math.floor(genrand_real2() * N) on the state reached by rng_next.
rng_rand(state, N) == (state * N) \div RNG_MOD

(***************************************************************************)
(* The carrier image (node-gd).                                            *)
(***************************************************************************)
colorAllocate(red, green, blue) == red * 65536 + green * 256 + blue

\* The pixel at linear position p of a carrier file: every carrier of the
\* model is a truecolor image with this content.
CarrierPixel(p) ==
  colorAllocate((p * 37) % 256, ((p \div 2) * 11 + 3) % 256, ((p \div 4) * 5 + 1) % 256)

CarrierImage(w, h) == [i \in 1..(w * h) |-> CarrierPixel(i - 1)]

\* gd answers 0 for a coordinate outside the image.
imageColorAt(image, x, y, i, j) ==
  IF i >= 0 /\ i < x /\ j >= 0 /\ j < y THEN image[j * x + i + 1] ELSE 0

\* gd ignores a write outside the image.
setPixel(image, x, y, i, j, color) ==
  IF i >= 0 /\ i < x /\ j >= 0 /\ j < y
  THEN [image EXCEPT ![j * x + i + 1] = color]
  ELSE image

\* copyResized into a new width x height image: gd samples the nearest
\* source pixel.
copyResized(image, x, y, width, height) ==
  [i \in 1..(width * height) |->
     LET dx == (i - 1) % width
         dy == (i - 1) \div width
     IN  imageColorAt(image, x, y, (dx * x) \div width, (dy * y) \div height)]

get_x_coords_by_linear(b, linear) == linear % b.__x

get_y_coords_by_linear(b, linear) == linear \div b.__x

(***************************************************************************)
(* Parameters derived from the key material.                               *)
(***************************************************************************)
getBitsPerPixel(b) ==
  (IF b.enableRed THEN 1 ELSE 0) + (IF b.enableGreen THEN 1 ELSE 0)
    + (IF b.enableBlue THEN 1 ELSE 0)

findMaxPayloadSize(b) ==
  [b EXCEPT !.__max_size = (getBitsPerPixel(b) * Len(b.__strides)) \div 8]

\* A pass that draws rng.rand(max_stride) + 1.
DemarcateStep_whole_range(d, max_stride) ==
  LET state == rng_next(d.rng)
      delta == rng_rand(state, max_stride) + 1
      total_remaining == d.total_remaining - delta
  IN  [total_remaining |-> total_remaining,
       rng |-> state,
       strides |-> IF total_remaining > 0 THEN Append(d.strides, delta) ELSE d.strides]

\* One pass of the while loop of demarcate_strides; d holds total_remaining,
\* the generator's state and the stride array.
DemarcateStep(d, max_stride) ==
  LET state == rng_next(d.rng)
      delta == rng_rand(state, max_stride - 1) + 1
      total_remaining == d.total_remaining - delta
  IN  [total_remaining |-> total_remaining,
       rng |-> state,
       strides |-> IF total_remaining > 0 THEN Append(d.strides, delta) ELSE d.strides]

RECURSIVE DemarcateChunk(_, _, _)
DemarcateChunk(d, max_stride, k) ==
  IF k = 0 \/ d.total_remaining <= 0 THEN d
  ELSE DemarcateChunk(DemarcateStep(d, max_stride), max_stride, k - 1)

RECURSIVE DemarcateLoop(_, _)
DemarcateLoop(d, max_stride) ==
  IF d.total_remaining <= 0 THEN d
  ELSE DemarcateLoop(DemarcateChunk(d, max_stride, Chunk), max_stride)

\* The strides pushed onto `strides` for an image of `area` pixels.
StridesFor(stride_seed, max_stride, offset, area, strides) ==
  DemarcateLoop([total_remaining |-> area - offset,
                 rng |-> rng_seed(stride_seed),
                 strides |-> strides], max_stride).strides

\* demarcate_strides(): the instance after the call, and whether the call
\* threw (the branch without a seed names LOG_WARNING, which is not defined).
demarcate_strides(b) ==
  IF b.__stride_seed >= 0
  THEN [bury |-> findMaxPayloadSize(
                   [b EXCEPT !.__strides =
                      StridesFor(b.__stride_seed, b.__max_stride, b.__offset,
                                 b.__x * b.__y, b.__strides)]),
        threw |-> FALSE]
  ELSE [bury |-> b, threw |-> TRUE]

(***************************************************************************)
(* The constructor.                                                        *)
(***************************************************************************)
\* The options a caller passes; a missing options argument gives the
\* defaults.
DefaultOptions ==
  [enableRed |-> TRUE, enableGreen |-> TRUE, enableBlue |-> TRUE,
   visibleResult |-> FALSE, compress |-> TRUE, rescaleCarrier |-> TRUE,
   storeFilename |-> TRUE]

\* The closure variables of a Bury instance before the constructor's body
\* runs.
InstanceVars(options) ==
  [enableRed |-> options.enableRed,
   enableGreen |-> options.enableGreen,
   enableBlue |-> options.enableBlue,
   visibleResult |-> options.visibleResult,
   compress |-> options.compress,
   rescaleCarrier |-> options.rescaleCarrier,
   store_filename |-> options.storeFilename,
   __image |-> <<>>,
   hasImage |-> FALSE,
   __x |-> 0,
   __y |-> 0,
   __bitCursor |-> 0,
   __iv_size |-> -1,
   __ciphertext |-> <<>>,
   __plaintext |-> <<>>,
   __key |-> <<>>,
   __payload_size |-> -1,
   __max_size |-> -1,
   __max_stride |-> -1,
   __offset |-> -1,
   __stride_seed |-> -1,
   __strides |-> <<>>]

\* The password check and the derivation of the parameters.
WithPassword(b, password) ==
  IF Len(password) < MIN_PASS_LENGTH THEN b
  ELSE LET params == deriveParamsFromKey(password)
       IN  [b EXCEPT !.__key = params.key,
                     !.__stride_seed = params.stride_seed,
                     !.__max_stride = params.max_stride,
                     !.__offset = params.offset]

\* A constructor that folds the offset into the first row of the carrier.
Bury_offset_in_first_row(exists, image, width, height, password, options) ==
  LET b0 == WithPassword(InstanceVars(options), password)
  IN  IF ~exists THEN [bury |-> b0, threw |-> FALSE]
      ELSE demarcate_strides([b0 EXCEPT !.__image = image,
                                        !.hasImage = TRUE,
                                        !.__x = width,
                                        !.__y = height,
                                        !.__offset = b0.__offset % width])

\* new Bury(carrier_path, password, options), where the file at carrier_path
\* holds `image` (width x height); exists = FALSE is a path that names no
\* file.  threw = TRUE: the constructor raised and no instance exists.
Bury(exists, image, width, height, password, options) ==
  LET b0 == WithPassword(InstanceVars(options), password)
  IN  IF ~exists THEN [bury |-> b0, threw |-> FALSE]
      ELSE demarcate_strides([b0 EXCEPT !.__image = image,
                                        !.hasImage = TRUE,
                                        !.__x = width,
                                        !.__y = height])

(***************************************************************************)
(* Strings: a string is the sequence of its character codes.               *)
(***************************************************************************)
COMMA == 44
DIGIT_0 == 48
LETTER_a == 97

\* Number.prototype.toString() of a byte.
DecimalString(v) ==
  IF v >= 100 THEN <<DIGIT_0 + (v \div 100), DIGIT_0 + ((v \div 10) % 10), DIGIT_0 + (v % 10)>>
  ELSE IF v >= 10 THEN <<DIGIT_0 + (v \div 10), DIGIT_0 + (v % 10)>>
  ELSE <<DIGIT_0 + v>>

\* Array.prototype.toString(): the elements lo..hi in decimal, joined by commas.
RECURSIVE JoinRange(_, _, _)
JoinRange(arr, lo, hi) ==
  IF lo > hi THEN <<>>
  ELSE IF lo = hi THEN DecimalString(arr[lo])
  ELSE LET mid == (lo + hi) \div 2
       IN  JoinRange(arr, lo, mid) \o <<COMMA>> \o JoinRange(arr, mid + 1, hi)

ArrayToString(arr) == JoinRange(arr, 1, Len(arr))

HexDigit(d) == IF d < 10 THEN DIGIT_0 + d ELSE LETTER_a + (d - 10)

\* WordArray.prototype.toString(): lower-case hex, two characters per byte.
WordArrayToString(words) ==
  LET bytes == toByteArray(words)
  IN  [i \in 1..(2 * Len(bytes)) |->
         LET v == bytes[((i - 1) \div 2) + 1]
         IN  IF i % 2 = 1 THEN HexDigit(v \div 16) ELSE HexDigit(v % 16)]

(***************************************************************************)
(* CryptoJS.MD5, CryptoJS.AES.encrypt and bzip2.compressBlock.             *)
(***************************************************************************)
RECURSIVE WeightedSum(_, _, _, _)
WeightedSum(bytes, lo, hi, j) ==
  IF lo > hi THEN 0
  ELSE IF lo = hi THEN (bytes[lo] * (((lo + j) % 7) + 1)) % 256
  ELSE LET mid == (lo + hi) \div 2
       IN  (WeightedSum(bytes, lo, mid, j) + WeightedSum(bytes, mid + 1, hi, j)) % 256

\* The 16-byte digest of a byte array, as four words.
MD5(bytes) ==
  toWordArray([j \in 1..MD5_SIZE |->
                 (WeightedSum(bytes, 1, Len(bytes), j) + Len(bytes) + j) % 256])

\* The data a block cipher sees under ZeroPadding.
ZeroPadding(data) ==
  data \o [i \in 1..((AES_BLOCK - (Len(data) % AES_BLOCK)) % AES_BLOCK) |-> 0]

\* The cipher object of CryptoJS.AES.encrypt: the IV it drew and the
\* ciphertext, both as word arrays.
AES_encrypt(data, key, iv) ==
  LET padded == ZeroPadding(data)
      ivb == toByteArray(iv)
  IN  [iv |-> iv,
       ciphertext |->
         toWordArray([i \in 1..Len(padded) |->
            (padded[i] + ivb[((i - 1) % IV_SIZE) + 1]
               + (IF Len(key) = 0 THEN 0 ELSE key[((i - 1) % Len(key)) + 1])) % 256])]

\* The block bzip2 produces: the stream magic followed by the data.
compressBlock(data) == <<66, 90, 104, 57>> \o data

(***************************************************************************)
(* bufferpack                                                              *)
(***************************************************************************)
\* The bytes of buffer a with `bytes` stored from position p (0-based).
WriteAt(a, p, bytes) ==
  [i \in 1..Len(a) |->
     IF i - 1 >= p /\ i - 1 < p + Len(bytes) THEN bytes[i - p] ELSE a[i]]

\* packTo('<HxBx', a, 0, [h, b])
Pack_HxBx(h, b) == <<h % 256, (h \div 256) % 256, 0, b % 256, 0>>

\* packTo('<I', a, 5, [v]): the four bytes in the other order.
Pack_I_little_endian(v) ==
  <<v % 256, (v \div 256) % 256, (v \div 65536) % 256, (v \div 16777216) % 256>>

\* packTo('>I', a, 5, [v])
Pack_I(v) ==
  <<(v \div 16777216) % 256, (v \div 65536) % 256, (v \div 256) % 256, v % 256>>

\* packTo(n+'B', a, p, values) where values is a string: each character is
\* stored as (character & 0xff), which is the digit's value for a digit and
\* 0 for a comma.
PackChar(c) == IF c >= DIGIT_0 /\ c <= DIGIT_0 + 9 THEN c - DIGIT_0 ELSE 0

Pack_B_String(n, values) == [i \in 1..n |-> PackChar(values[i])]

\* unpack('<H', a, p), unpack('<B', a, p), unpack('>I', a, p): UNDEFINED
\* when the array is too short.
Unpack_H(a, p) ==
  IF p + 2 > Len(a) THEN UNDEFINED ELSE a[p + 1] + 256 * a[p + 2]

Unpack_B(a, p) ==
  IF p + 1 > Len(a) THEN UNDEFINED ELSE a[p + 1]

Unpack_I(a, p) ==
  IF p + 4 > Len(a) THEN UNDEFINED
  ELSE IF a[p + 1] >= 128 THEN MAX_INT
  ELSE a[p + 1] * 16777216 + a[p + 2] * 65536 + a[p + 3] * 256 + a[p + 4]

(***************************************************************************)
(* set_channel_spec, encrypt                                               *)
(***************************************************************************)
\* A set_channel_spec that takes i for the column and j for the row.
set_channel_spec_transposed(b) ==
  LET j == b.__offset % b.__x
      i == b.__offset \div b.__x
      temp == imageColorAt(b.__image, b.__x, b.__y, i, j)
      red == (((temp \div 65536) % 256) - ((temp \div 65536) % 2))
               + (IF b.enableRed THEN 1 ELSE 0)
      green == (((temp \div 256) % 256) - ((temp \div 256) % 2))
               + (IF b.enableGreen THEN 1 ELSE 0)
      blue == ((temp % 256) - (temp % 2)) + (IF b.enableBlue THEN 1 ELSE 0)
  IN  [b EXCEPT !.__image =
         setPixel(b.__image, b.__x, b.__y, i, j, colorAllocate(red, green, blue))]

set_channel_spec(b) ==
  LET j == b.__offset % b.__x
      i == b.__offset \div b.__x
      temp == imageColorAt(b.__image, b.__x, b.__y, j, i)
      red == (((temp \div 65536) % 256) - ((temp \div 65536) % 2))
               + (IF b.enableRed THEN 1 ELSE 0)
      green == (((temp \div 256) % 256) - ((temp \div 256) % 2))
               + (IF b.enableGreen THEN 1 ELSE 0)
      blue == ((temp % 256) - (temp % 2)) + (IF b.enableBlue THEN 1 ELSE 0)
  IN  [b EXCEPT !.__image =
         setPixel(b.__image, b.__x, b.__y, j, i, colorAllocate(red, green, blue))]

\* The buffer encrypt() packs.  `fill` is the content of the bytes of
\* new Buffer(n) that no packTo writes.
PackPayload(message_params, nu_iv, encrypted, checksum, fill) ==
  LET payload_length == Len(encrypted) + Len(nu_iv) + Len(checksum)
      buf0 == [i \in 1..(payload_length + HEADER_LENGTH) |-> fill]
      buf1 == WriteAt(buf0, 0, Pack_HxBx(VERSION_CODE, message_params))
      buf2 == WriteAt(buf1, 5, Pack_I(payload_length))
      buf3 == WriteAt(buf2, HEADER_LENGTH, Pack_B_String(Len(nu_iv), ArrayToString(nu_iv)))
      buf4 == WriteAt(buf3, HEADER_LENGTH + Len(nu_iv), encrypted)
  IN  WriteAt(buf4, payload_length - 16, checksum)

\* encrypt(): iv is the IV the cipher draws.  threw = TRUE is the branch
\* for a stored filename that is not 32 bytes, which names LOG_WARNING.
encrypt(b, iv, fill) ==
  IF b.store_filename
  THEN [bury |-> b, threw |-> TRUE]
  ELSE
    LET compressed == IF b.compress THEN compressBlock(b.__plaintext) ELSE b.__plaintext
        cipherObj == AES_encrypt(compressed, b.__key, iv)
        nu_iv == toByteArray(cipherObj.iv)
        encrypted == toByteArray(cipherObj.ciphertext)
        checksum == toByteArray(MD5(encrypted))
        message_params == (IF b.compress THEN 1 ELSE 0) + (IF b.store_filename THEN 4 ELSE 0)
        packed == PackPayload(message_params, nu_iv, encrypted, checksum, fill)
    IN  [bury |-> [b EXCEPT !.__ciphertext = packed,
                           !.__payload_size = Len(packed)],
         threw |-> FALSE]

(***************************************************************************)
(* getBit, modulate                                                        *)
(***************************************************************************)
\* What getBit returns besides 0 and 1, and a `bit` never assigned.
BIT_FALSE == -1

\* getBit() with the bit cursor at `cursor`: the bit and the cursor after.
\* Past the end of the payload the bit is rng.rand(1), which is 0 in every
\* state of the generator, or false when visibleResult is on.
getBit(b, cursor) ==
  IF cursor < b.__payload_size * 8
  THEN [bit |-> BitOf(b.__ciphertext[(cursor \div 8) + 1], cursor % 8),
        cursor |-> cursor + 1]
  ELSE [bit |-> IF b.visibleResult THEN BIT_FALSE
                ELSE IF rng_rand(rng_next(0), 1) # 0 THEN 1 ELSE 0,
        cursor |-> cursor]

\* The three getBit calls made in the order red, green, blue.
PixelBits_rgb(b, cursor) ==
  LET r == IF b.enableRed THEN getBit(b, cursor)
           ELSE [bit |-> UNDEFINED, cursor |-> cursor]
      g == IF b.enableGreen THEN getBit(b, r.cursor)
           ELSE [bit |-> UNDEFINED, cursor |-> r.cursor]
      bl == IF b.enableBlue THEN getBit(b, g.cursor)
            ELSE [bit |-> UNDEFINED, cursor |-> g.cursor]
  IN  [red |-> r.bit, blue |-> bl.bit, green |-> g.bit, cursor |-> bl.cursor,
       last |-> IF b.enableBlue THEN bl.bit
                ELSE IF b.enableGreen THEN g.bit
                ELSE r.bit]

\* The three getBit calls made for one pixel, in the order of the code:
\* red, blue, green.
PixelBits(b, cursor) ==
  LET r == IF b.enableRed THEN getBit(b, cursor)
           ELSE [bit |-> UNDEFINED, cursor |-> cursor]
      bl == IF b.enableBlue THEN getBit(b, r.cursor)
            ELSE [bit |-> UNDEFINED, cursor |-> r.cursor]
      g == IF b.enableGreen THEN getBit(b, bl.cursor)
           ELSE [bit |-> UNDEFINED, cursor |-> bl.cursor]
  IN  [red |-> r.bit, blue |-> bl.bit, green |-> g.bit, cursor |-> g.cursor,
       last |-> IF b.enableGreen THEN g.bit
                ELSE IF b.enableBlue THEN bl.bit
                ELSE r.bit]

\* A colour whose enabled channels have the bit added to the lowest bit
\* they hold, instead of replacing it.
ModulatedColor_adds_bit(b, temp, bits) ==
  LET red == (temp \div 65536) % 256
      green == (temp \div 256) % 256
      blue == temp % 256
  IN  IF b.visibleResult
      THEN IF bits.last = BIT_FALSE THEN colorAllocate(0, 255, 0)
           ELSE colorAllocate(255, 0, 0)
      ELSE colorAllocate(
             IF b.enableRed /\ bits.red # BIT_FALSE
             THEN (red - (red % 2)) + ((red + bits.red) % 2) ELSE red,
             IF b.enableGreen /\ bits.green # BIT_FALSE
             THEN (green - (green % 2)) + ((green + bits.green) % 2) ELSE green,
             IF b.enableBlue /\ bits.blue # BIT_FALSE
             THEN (blue - (blue % 2)) + ((blue + bits.blue) % 2) ELSE blue)

\* A colour whose channels that are not enabled lose their lowest bit.
ModulatedColor_clears_disabled(b, temp, bits) ==
  LET red == (temp \div 65536) % 256
      green == (temp \div 256) % 256
      blue == temp % 256
  IN  IF b.visibleResult
      THEN IF bits.last = BIT_FALSE THEN colorAllocate(0, 255, 0)
           ELSE colorAllocate(255, 0, 0)
      ELSE colorAllocate(
             (red - (red % 2)) + (IF b.enableRed /\ bits.red # BIT_FALSE THEN bits.red ELSE 0),
             (green - (green % 2))
               + (IF b.enableGreen /\ bits.green # BIT_FALSE THEN bits.green ELSE 0),
             (blue - (blue % 2))
               + (IF b.enableBlue /\ bits.blue # BIT_FALSE THEN bits.blue ELSE 0))

\* The colour modulate() writes for a pixel that held temp.
ModulatedColor(b, temp, bits) ==
  LET red == (temp \div 65536) % 256
      green == (temp \div 256) % 256
      blue == temp % 256
  IN  IF b.visibleResult
      THEN IF bits.last = BIT_FALSE THEN colorAllocate(0, 255, 0)
           ELSE colorAllocate(255, 0, 0)
      ELSE colorAllocate(
             IF b.enableRed /\ bits.red # BIT_FALSE THEN (red - (red % 2)) + bits.red ELSE red,
             IF b.enableGreen /\ bits.green # BIT_FALSE THEN (green - (green % 2)) + bits.green ELSE green,
             IF b.enableBlue /\ bits.blue # BIT_FALSE THEN (blue - (blue % 2)) + bits.blue ELSE blue)

\* One pass of the for loop of modulate(); m holds n, abs_pix, the image
\* and the bit cursor.
ModulateStep(b, m) ==
  LET abs_pix == m.abs_pix + b.__strides[m.n + 1]
      i == get_x_coords_by_linear(b, abs_pix)
      j == get_y_coords_by_linear(b, abs_pix)
      temp == imageColorAt(m.image, b.__x, b.__y, i, j)
      bits == PixelBits(b, m.cursor)
  IN  [n |-> m.n + 1,
       abs_pix |-> abs_pix,
       image |-> setPixel(m.image, b.__x, b.__y, i, j, ModulatedColor(b, temp, bits)),
       cursor |-> bits.cursor]

RECURSIVE ModulateChunk(_, _, _)
ModulateChunk(b, m, k) ==
  IF k = 0 \/ m.n >= Len(b.__strides) THEN m
  ELSE ModulateChunk(b, ModulateStep(b, m), k - 1)

RECURSIVE ModulateLoop(_, _)
ModulateLoop(b, m) ==
  IF m.n >= Len(b.__strides) THEN m
  ELSE ModulateLoop(b, ModulateChunk(b, m, Chunk))

\* modulate(): always returns true.
modulate(b) ==
  LET b1 == set_channel_spec(b)
      m == ModulateLoop(b1, [n |-> 0, abs_pix |-> b1.__offset,
                             image |-> b1.__image, cursor |-> 0])
  IN  [b1 EXCEPT !.__image = m.image, !.__bitCursor = m.cursor]

(***************************************************************************)
(* rescale_carrier                                                         *)
(***************************************************************************)
\* One pass of the while loop that counts the pixels the payload needs.
RequiredStep(b, bpp, r) ==
  [bits |-> r.bits - bpp,
   n |-> r.n + 1,
   required_pixels |-> r.required_pixels + b.__strides[r.n + 1]]

\* __strides[n] is truthy: n is inside the array (a stride is never 0).
RequiredGoesOn(b, r) == r.bits > 0 /\ r.n < Len(b.__strides)

RECURSIVE RequiredChunk(_, _, _, _)
RequiredChunk(b, bpp, r, k) ==
  IF k = 0 \/ ~RequiredGoesOn(b, r) THEN r
  ELSE RequiredChunk(b, bpp, RequiredStep(b, bpp, r), k - 1)

RECURSIVE RequiredLoop(_, _, _)
RequiredLoop(b, bpp, r) ==
  IF ~RequiredGoesOn(b, r) THEN r
  ELSE RequiredLoop(b, bpp, RequiredChunk(b, bpp, r, Chunk))

RequiredPixels(b) ==
  RequiredLoop(b, getBitsPerPixel(b),
               [bits |-> b.__payload_size * 8, n |-> 0,
                required_pixels |-> b.__offset]).required_pixels

\* Math.ceil(Math.sqrt(required_pixels / ratio)) for ratio = long / short.
\* The carriers of the model have a ratio of 1 or 2, for which the
\* floating-point value is the exact one.
CeilSqrtOver(required_pixels, long, short) ==
  CHOOSE n \in 0..(required_pixels + 1) :
    /\ n * n * long >= required_pixels * short
    /\ n = 0 \/ (n - 1) * (n - 1) * long < required_pixels * short

\* Math.ceil(n * ratio)
CeilTimesRatio(n, long, short) == (n * long + short - 1) \div short

\* The width and height rescale_carrier asks gd for.
RescaledSize(b, required_pixels) ==
  LET long == Max(b.__x, b.__y)
      short == Min(b.__x, b.__y)
      n == CeilSqrtOver(required_pixels, long, short)
  IN  IF b.__x >= b.__y
      THEN [width |-> CeilTimesRatio(n, long, short), height |-> n]
      ELSE [width |-> n, height |-> CeilTimesRatio(n, long, short)]

\* rescale_carrier() without the test that the copy is smaller, and with the
\* square root taken of required_pixels alone.
rescale_carrier_unchecked(b) ==
  LET required_pixels == RequiredPixels(b)
      n == CeilSqrtOver(required_pixels, 1, 1)
      long == Max(b.__x, b.__y)
      short == Min(b.__x, b.__y)
      width == IF b.__x >= b.__y THEN CeilTimesRatio(n, long, short) ELSE n
      height == IF b.__x >= b.__y THEN n ELSE CeilTimesRatio(n, long, short)
  IN  IF width * height = 0 THEN [bury |-> b, threw |-> FALSE]
      ELSE IF (height * width) >= required_pixels
      THEN demarcate_strides(
             [b EXCEPT !.__image = copyResized(b.__image, b.__x, b.__y, width, height),
                       !.__x = width,
                       !.__y = height,
                       !.__strides = <<>>])
      ELSE [bury |-> b, threw |-> TRUE]

\* A rescale that leaves the strides of the larger raster in the array.
rescale_carrier_keeps_strides(b) ==
  LET required_pixels == RequiredPixels(b)
      size == RescaledSize(b, required_pixels)
      width == size.width
      height == size.height
  IN  IF width * height = 0 THEN [bury |-> b, threw |-> FALSE]
      ELSE IF (height * width) < (b.__x * b.__y)
      THEN IF (height * width) >= required_pixels
           THEN demarcate_strides(
                  [b EXCEPT !.__image = copyResized(b.__image, b.__x, b.__y, width, height),
                            !.__x = width,
                            !.__y = height])
           ELSE [bury |-> b, threw |-> TRUE]
      ELSE [bury |-> b, threw |-> TRUE]

\* rescale_carrier(): the instance after the call and whether it threw
\* (both branches that keep the original carrier name LOG_WARNING, which
\* is not defined).  gd makes no image of zero area; the call then logs
\* an error and returns.
rescale_carrier(b) ==
  LET required_pixels == RequiredPixels(b)
      size == RescaledSize(b, required_pixels)
      width == size.width
      height == size.height
  IN  IF width * height = 0 THEN [bury |-> b, threw |-> FALSE]
      ELSE IF (height * width) < (b.__x * b.__y)
      THEN IF (height * width) >= required_pixels
           THEN demarcate_strides(
                  [b EXCEPT !.__image = copyResized(b.__image, b.__x, b.__y, width, height),
                            !.__x = width,
                            !.__y = height,
                            !.__strides = <<>>])
           ELSE [bury |-> b, threw |-> TRUE]
      ELSE [bury |-> b, threw |-> TRUE]

(***************************************************************************)
(* setMessage                                                              *)
(***************************************************************************)
\* Math.floor(message.length) + (message.length % 16) ? 16 : 0, which
\* JavaScript reads as (length + length % 16) ? 16 : 0.
PaddedLen(message) ==
  IF (Len(message) + (Len(message) % 16)) # 0 THEN 16 ELSE 0

\* The first half of setMessage: load the message as the plaintext.
LoadMessage(b, message) ==
  IF Len(message) > 0 /\ Len(b.__plaintext) = 0
  THEN [b EXCEPT !.__plaintext = pad(message, PaddedLen(message), SPACE, STR_PAD_RIGHT),
                 !.store_filename = FALSE]
  ELSE b

\* A second half that takes a capacity of 0 for no limit.
FitIntoCarrier_zero_is_unlimited(e) ==
  IF e.threw THEN [bury |-> e.bury, result |-> "threw", ran |-> {}]
  ELSE IF e.bury.__payload_size <= e.bury.__max_size \/ e.bury.__max_size = 0
  THEN LET r == IF e.bury.rescaleCarrier THEN rescale_carrier(e.bury)
                ELSE [bury |-> e.bury, threw |-> FALSE]
       IN  IF r.threw THEN [bury |-> r.bury, result |-> "threw", ran |-> {"encrypt"}]
           ELSE [bury |-> modulate(r.bury), result |-> "true",
                 ran |-> {"encrypt", "modulate"}]
  ELSE [bury |-> e.bury, result |-> "false", ran |-> {"encrypt"}]

\* The second half, once encrypt() has returned e: fit the payload into
\* the carrier.
FitIntoCarrier(e) ==
  IF e.threw THEN [bury |-> e.bury, result |-> "threw", ran |-> {}]
  ELSE IF e.bury.__payload_size <= e.bury.__max_size
  THEN LET r == IF e.bury.rescaleCarrier THEN rescale_carrier(e.bury)
                ELSE [bury |-> e.bury, threw |-> FALSE]
       IN  IF r.threw THEN [bury |-> r.bury, result |-> "threw", ran |-> {"encrypt"}]
           ELSE [bury |-> modulate(r.bury), result |-> "true",
                 ran |-> {"encrypt", "modulate"}]
  ELSE [bury |-> e.bury, result |-> "false", ran |-> {"encrypt"}]

\* setMessage(message): the instance after the call, what the call
\* returned ("threw": it raised instead of returning), and which of
\* encrypt() and modulate() ran to their end.
setMessage(b, message, iv, fill) ==
  LET b1 == LoadMessage(b, message)
  IN  IF Len(b1.__plaintext) > 0
      THEN FitIntoCarrier(encrypt([b1 EXCEPT !.__iv_size = 16], iv, fill))
      ELSE [bury |-> b1, result |-> "false", ran |-> {}]

(***************************************************************************)
(* get_channel_spec, demodulate, decodeHeader, verify_checksum, decrypt    *)
(***************************************************************************)
\* get_channel_spec() that leaves the flags of the options in place.
get_channel_spec_from_options(b) == b

get_channel_spec(b) ==
  LET temp == imageColorAt(b.__image, b.__x, b.__y,
                           b.__offset % b.__x, b.__offset \div b.__x)
  IN  [b EXCEPT !.enableRed = ((temp \div 65536) % 2) # 0,
                !.enableGreen = ((temp \div 256) % 2) # 0,
                !.enableBlue = (temp % 2) # 0]

\* all_bytes[byte] = (all_bytes[byte] >> 1) + (lsb << 7); bit++;
\* if (bit % 8 == 0) all_bytes[++byte] = 0x00;
ShiftIn(d, lsb) ==
  LET shifted == [d.all_bytes EXCEPT ![d.byte + 1] = (@ \div 2) + (lsb * 128)]
  IN  IF (d.bit + 1) % 8 = 0
      THEN [d EXCEPT !.all_bytes = Append(shifted, 0), !.byte = @ + 1, !.bit = @ + 1]
      ELSE [d EXCEPT !.all_bytes = shifted, !.bit = @ + 1]

\* One pass of the for loop of demodulate() that reads red, green, blue.
DemodulateStep_rgb(b, d) ==
  LET abs_pix == d.abs_pix + b.__strides[d.n + 1]
      temp == imageColorAt(b.__image, b.__x, b.__y,
                           get_x_coords_by_linear(b, abs_pix),
                           get_y_coords_by_linear(b, abs_pix))
      d0 == [d EXCEPT !.n = @ + 1, !.abs_pix = abs_pix]
      d1 == IF b.enableRed THEN ShiftIn(d0, (temp \div 65536) % 2) ELSE d0
      d2 == IF b.enableGreen THEN ShiftIn(d1, (temp \div 256) % 2) ELSE d1
  IN  IF b.enableBlue THEN ShiftIn(d2, temp % 2) ELSE d2

\* One pass of the for loop of demodulate(): red, then blue, then green.
DemodulateStep(b, d) ==
  LET abs_pix == d.abs_pix + b.__strides[d.n + 1]
      temp == imageColorAt(b.__image, b.__x, b.__y,
                           get_x_coords_by_linear(b, abs_pix),
                           get_y_coords_by_linear(b, abs_pix))
      d0 == [d EXCEPT !.n = @ + 1, !.abs_pix = abs_pix]
      d1 == IF b.enableRed THEN ShiftIn(d0, (temp \div 65536) % 2) ELSE d0
      d2 == IF b.enableBlue THEN ShiftIn(d1, temp % 2) ELSE d1
  IN  IF b.enableGreen THEN ShiftIn(d2, (temp \div 256) % 2) ELSE d2

RECURSIVE DemodulateChunk(_, _, _)
DemodulateChunk(b, d, k) ==
  IF k = 0 \/ d.n >= Len(b.__strides) THEN d
  ELSE DemodulateChunk(b, DemodulateStep(b, d), k - 1)

RECURSIVE DemodulateLoop(_, _)
DemodulateLoop(b, d) ==
  IF d.n >= Len(b.__strides) THEN d
  ELSE DemodulateLoop(b, DemodulateChunk(b, d, Chunk))

\* all_bytes at the end of the loop of demodulate(), for an instance whose
\* channel flags are already set.
DemodulatedBytes(b) ==
  DemodulateLoop(b, [n |-> 0, abs_pix |-> b.__offset, all_bytes |-> <<0>>,
                     byte |-> 0, bit |-> 0]).all_bytes

\* A decodeHeader that accepts every version.
decodeHeader_any_version(b, bytes) ==
  LET msg_params == Unpack_B(bytes, 3)
      flags == IF msg_params = UNDEFINED THEN 0 ELSE msg_params
  IN  [bury |-> [b EXCEPT !.__payload_size = Unpack_I(bytes, 5),
                         !.compress = (flags % 2) # 0,
                         !.store_filename = ((flags \div 4) % 2) # 0,
                         !.__ciphertext = SliceFrom(bytes, HEADER_LENGTH)],
       returned |-> TRUE]

\* decodeHeader(bytes): the instance after the call and what it returned.
\* undefined & mask is 0.
decodeHeader(b, bytes) ==
  LET ver == Unpack_H(bytes, 0)
      msg_params == Unpack_B(bytes, 3)
      flags == IF msg_params = UNDEFINED THEN 0 ELSE msg_params
  IN  [bury |-> [b EXCEPT !.__payload_size = Unpack_I(bytes, 5),
                         !.compress = (flags % 2) # 0,
                         !.store_filename = ((flags \div 4) % 2) # 0,
                         !.__ciphertext = SliceFrom(bytes, HEADER_LENGTH)],
       returned |-> (VERSION_CODE = ver)]

\* __payload_size - 16 as a slice index; undefined - 16 is NaN, which
\* slice reads as 0.
ChecksumIndex(b) ==
  IF b.__payload_size = UNDEFINED THEN 0 ELSE b.__payload_size - 16

\* verify_checksum(): the instance after the call and what it returned.
verify_checksum(b) ==
  LET msg == Slice(b.__ciphertext, 0, ChecksumIndex(b))
      chksum == SliceFrom(b.__ciphertext, ChecksumIndex(b))
      hash == MD5(msg)
  IN  [bury |-> [b EXCEPT !.__ciphertext = msg],
       returned |-> ~strncmp(ArrayToString(chksum), WordArrayToString(hash), 32)]

\* decrypt(): the statement after the IV is sliced reads payload_size, a
\* name that is declared nowhere, so every call raises a ReferenceError.
decrypt(b) ==
  [bury |-> [b EXCEPT !.__iv_size = 16], threw |-> TRUE]

\* demodulate(): the instance after the call, what it returned, and which
\* of its steps ran.
demodulate(b) ==
  LET b1 == get_channel_spec(b)
      h == decodeHeader(b1, DemodulatedBytes(b1))
  IN  IF h.returned
      THEN LET v == verify_checksum(h.bury)
           IN  [bury |-> v.bury, returned |-> v.returned,
                ran |-> {"decodeHeader", "verify_checksum"}]
      ELSE [bury |-> h.bury, returned |-> FALSE, ran |-> {"decodeHeader"}]

(***************************************************************************)
(* getMessage                                                              *)
(***************************************************************************)
\* getMessage(): the instance after the call, what the call returned
\* ("message": the plaintext, in value), which steps ran, and how many
\* pixels of the image were read.
getMessage(b) ==
  IF b.hasImage
  THEN LET m == demodulate(b)
           reads == 1 + Len(b.__strides)
       IN  IF m.returned
           THEN LET d == decrypt(m.bury)
                IN  IF d.threw
                    THEN [bury |-> d.bury, result |-> "threw", value |-> <<>>,
                          ran |-> m.ran \cup {"decrypt"}, reads |-> reads]
                    ELSE [bury |-> d.bury, result |-> "message",
                          value |-> d.bury.__plaintext,
                          ran |-> m.ran \cup {"decrypt"}, reads |-> reads]
           ELSE [bury |-> m.bury, result |-> "false", value |-> <<>>,
                 ran |-> m.ran, reads |-> reads]
  ELSE [bury |-> b, result |-> "false", value |-> <<>>, ran |-> {}, reads |-> 0]

(***************************************************************************)
(* Bury.testPasswordCompatibility                                          *)
(***************************************************************************)
\* A pass that draws nothing and pushes nothing: n stays where it is.
CompatStep_stands_still(c, max_stride) == c

\* One pass of a while loop of the test: n += rng.rand(max_stride), then
\* strides.push(n).
CompatStep(c, max_stride) ==
  LET state == rng_next(c.rng)
      n == c.n + rng_rand(state, max_stride)
  IN  [rng |-> state, n |-> n, strides |-> Append(c.strides, n)]

RECURSIVE CompatChunk(_, _, _, _)
CompatChunk(c, max_stride, test_limit, k) ==
  IF k = 0 \/ c.n >= test_limit THEN c
  ELSE CompatChunk(CompatStep(c, max_stride), max_stride, test_limit, k - 1)

RECURSIVE CompatLoop(_, _, _)
CompatLoop(c, max_stride, test_limit) ==
  IF c.n >= test_limit THEN c
  ELSE CompatLoop(CompatChunk(c, max_stride, test_limit, Chunk), max_stride, test_limit)

\* The array strides0 / strides1 / strides2 the test builds for one password.
CompatStrides(params, test_limit) ==
  CompatLoop([rng |-> rng_seed(params.stride_seed), n |-> params.offset,
              strides |-> <<>>], params.max_stride, test_limit).strides

\* strides.indexOf(v) >= 0
Contains(strides, v) == \E i \in 1..Len(strides) : strides[i] = v

\* An omitted third password.
NO_PASSWORD == ""

\* testPasswordCompatibility that never looks at its third argument.
testPasswordCompatibility_pair(pass0, pass1, pass2) ==
  LET params0 == deriveParamsFromKey(pass0)
      params1 == deriveParamsFromKey(pass1)
      limit01 == Max(params0.offset, params1.offset)
      strides0 == CompatStrides(params0, limit01)
      strides1 == CompatStrides(params1, limit01)
  IN  IF Contains(strides1, params0.offset) \/ Contains(strides0, params1.offset)
      THEN FALSE
      ELSE TRUE

testPasswordCompatibility(pass0, pass1, pass2) ==
  LET params0 == deriveParamsFromKey(pass0)
      params1 == deriveParamsFromKey(pass1)
      limit01 == Max(params0.offset, params1.offset)
  IN  IF pass2 # NO_PASSWORD
      THEN LET params2 == deriveParamsFromKey(pass2)
               test_limit == Max(limit01, params2.offset)
               strides0 == CompatStrides(params0, test_limit)
               strides1 == CompatStrides(params1, test_limit)
               strides2 == CompatStrides(params2, test_limit)
           IN  IF Contains(strides1, params2.offset) \/ Contains(strides0, params2.offset)
               THEN FALSE
               ELSE IF Contains(strides2, params1.offset) \/ Contains(strides0, params1.offset)
               THEN FALSE
               ELSE IF Contains(strides1, params0.offset) \/ Contains(strides2, params0.offset)
               THEN FALSE
               ELSE TRUE
      ELSE LET strides0 == CompatStrides(params0, limit01)
               strides1 == CompatStrides(params1, limit01)
           IN  IF Contains(strides1, params0.offset) \/ Contains(strides0, params1.offset)
               THEN FALSE
               ELSE TRUE

(***************************************************************************)
(* Inputs of the model.                                                    *)
(***************************************************************************)
\* Passwords given to the constructor.
InstancePasswords == {"saddroPs3", "saddroPs540", "password1", "short"}

\* Carrier files: a path that names no file, and truecolor images.
Carriers ==
  {[exists |-> FALSE, width |-> 0, height |-> 0],
   [exists |-> TRUE, width |-> 16, height |-> 16],
   [exists |-> TRUE, width |-> 20, height |-> 10]}

CarrierFile(c) ==
  [exists |-> c.exists, image |-> CarrierImage(c.width, c.height),
   width |-> c.width, height |-> c.height]

Opt(r, g, bl, visible, comp, rescale, filename) ==
  [enableRed |-> r, enableGreen |-> g, enableBlue |-> bl,
   visibleResult |-> visible, compress |-> comp, rescaleCarrier |-> rescale,
   storeFilename |-> filename]

\* Options given to the first instance.
OptionSets ==
  {Opt(TRUE, TRUE, TRUE, FALSE, FALSE, TRUE, FALSE),
   Opt(TRUE, TRUE, TRUE, TRUE, FALSE, FALSE, FALSE),
   Opt(TRUE, TRUE, TRUE, FALSE, FALSE, FALSE, FALSE),
   Opt(FALSE, TRUE, TRUE, FALSE, TRUE, TRUE, TRUE),
   Opt(FALSE, FALSE, FALSE, FALSE, FALSE, FALSE, FALSE)}

\* Options given to an instance that reopens the output image.
ReopenOptions ==
  {DefaultOptions, Opt(TRUE, FALSE, FALSE, FALSE, FALSE, FALSE, FALSE)}

\* Messages: "hi" and "hello, carrier 17" (17 characters).
MessageHi == <<104, 105>>
MessageHello == <<104, 101, 108, 108, 111, 44, 32, 99, 97, 114, 114, 105, 101, 114, 32, 49, 55>>

\* What one call of encrypt() draws: the IV of the cipher (as words) and
\* the bytes found in the part of the new Buffer that is never written.
EntropyA == [iv |-> <<16909060, 84281096, 151653132, 219025168>>, fill |-> 0]
EntropyB == [iv |-> <<-1, 2139062143, -2139062144, 305419896>>, fill |-> 255]

\* The calls of setMessage with a message: the message and what encrypt()
\* draws during the call.
SetCalls ==
  {[message |-> MessageHi, entropy |-> EntropyB],
   [message |-> MessageHello, entropy |-> EntropyA]}

(***************************************************************************)
(* The state machine.                                                      *)
(***************************************************************************)
VARIABLES
  file,         \* the image file on disk: the carrier, then the output image
  bury,         \* the closure variables of the current Bury instance
  alive,        \* FALSE when the constructor raised: there is no instance
  password,     \* the password the current instance was constructed with
  loaded,       \* width and height of the image the current instance loaded
  ops,          \* calls of setMessage / getMessage made on the current instance
  reopens,      \* instances constructed over the output image so far
  calls,        \* calls made so far
  last,         \* the last call and its outcome
  performed,    \* the current instance has modulated or demodulated its image
  buried,       \* the message a fresh instance buried in the image, if any
  compat,       \* the last call of testPasswordCompatibility and its result
  header,       \* the last header packed on its own and what decodeHeader read
  channels,     \* the last channel specification written on its own and read back
  probe         \* the last function of the library called on its own, and its result

vars == <<file, bury, alive, password, loaded, ops, reopens, calls, last, performed,
          buried, compat, header, channels, probe>>

\* No header has been packed on its own.
NoHeader == [called |-> FALSE, msg_params |-> 0, payload_length |-> 0,
             bytes |-> <<>>, returned |-> FALSE, compress |-> FALSE,
             store_filename |-> FALSE, __payload_size |-> 0]

\* No function has been called on its own.
NoProbe == [called |-> "none"]

\* No channel specification has been written on its own.
NoChannels == [called |-> FALSE, written |-> [red |-> FALSE, green |-> FALSE, blue |-> FALSE],
               read |-> [red |-> FALSE, green |-> FALSE, blue |-> FALSE],
               offset |-> 0, before |-> <<>>, after |-> <<>>]

\* What a call that does not encrypt draws.
NoEntropy == [iv |-> <<0, 0, 0, 0>>, fill |-> 0]

NoCall ==
  [op |-> "new", message |-> <<>>, result |-> "none", value |-> <<>>,
   ran |-> {}, reads |-> 0, rescaled |-> FALSE, entropy |-> NoEntropy]

NothingBuried == [valid |-> FALSE, message |-> <<>>, password |-> ""]

NoCompat == [pass0 |-> "", pass1 |-> "", pass2 |-> "", result |-> FALSE, called |-> FALSE]

\* new Bury(path, pw, options) over the file f.
Construct(f, pw, options) ==
  LET c == Bury(f.exists, f.image, f.width, f.height, pw, options)
  IN  /\ bury' = c.bury
      /\ alive' = ~c.threw
      /\ password' = pw
      /\ loaded' = [width |-> f.width, height |-> f.height]
      /\ ops' = 0
      /\ last' = NoCall
      /\ performed' = FALSE

Init ==
  \E pw \in InstancePasswords, c \in Carriers, options \in OptionSets :
    LET f == CarrierFile(c)
        n == Bury(f.exists, f.image, f.width, f.height, pw, options)
    IN  /\ file = f
        /\ bury = n.bury
        /\ alive = ~n.threw
        /\ password = pw
        /\ loaded = [width |-> f.width, height |-> f.height]
        /\ ops = 0
        /\ reopens = 0
        /\ calls = 0
        /\ last = NoCall
        /\ performed = FALSE
        /\ buried = NothingBuried
        /\ compat = NoCompat
        /\ header = NoHeader
        /\ channels = NoChannels
        /\ probe = NoProbe

\* instance.setMessage(message)
SetMessage(message, e) ==
  /\ alive
  /\ calls < MaxCalls
  /\ LET s == setMessage(bury, message, e.iv, e.fill)
     IN  /\ bury' = s.bury
         /\ last' = [op |-> "setMessage", message |-> message, result |-> s.result,
                     value |-> <<>>, ran |-> s.ran, reads |-> 0,
                     rescaled |-> (s.bury.__x # bury.__x \/ s.bury.__y # bury.__y),
                     entropy |-> e]
         /\ performed' = (performed \/ "modulate" \in s.ran)
         /\ buried' = IF s.result = "true" /\ ops = 0
                      THEN [valid |-> TRUE, message |-> message, password |-> password]
                      ELSE IF s.bury.__image = bury.__image THEN buried
                      ELSE NothingBuried
  /\ ops' = ops + 1
  /\ calls' = calls + 1
  /\ UNCHANGED <<file, alive, password, loaded, reopens, compat, header, channels, probe>>

\* instance.setMessage('')
SetEmptyMessage ==
  /\ alive
  /\ calls < MaxCalls
  /\ LET s == setMessage(bury, <<>>, NoEntropy.iv, NoEntropy.fill)
     IN  /\ bury' = s.bury
         /\ last' = [op |-> "setMessage", message |-> <<>>, result |-> s.result,
                     value |-> <<>>, ran |-> s.ran, reads |-> 0,
                     rescaled |-> (s.bury.__x # bury.__x \/ s.bury.__y # bury.__y),
                     entropy |-> NoEntropy]
         /\ performed' = (performed \/ "modulate" \in s.ran)
         /\ buried' = IF s.bury.__image = bury.__image THEN buried ELSE NothingBuried
  /\ ops' = ops + 1
  /\ calls' = calls + 1
  /\ UNCHANGED <<file, alive, password, loaded, reopens, compat, header, channels, probe>>

\* instance.getMessage()
GetMessage ==
  /\ alive
  /\ calls < MaxCalls
  /\ LET g == getMessage(bury)
     IN  /\ bury' = g.bury
         /\ last' = [op |-> "getMessage", message |-> <<>>, result |-> g.result,
                     value |-> g.value, ran |-> g.ran, reads |-> g.reads,
                     rescaled |-> FALSE, entropy |-> NoEntropy]
         /\ performed' = (performed \/ bury.hasImage)
  /\ ops' = ops + 1
  /\ calls' = calls + 1
  /\ UNCHANGED <<file, alive, password, loaded, reopens, buried, compat, header, channels, probe>>

\* instance.outputImage(path), then new Bury(path, password, options).
Reopen(options) ==
  /\ calls < MaxCalls
  /\ LET f == IF alive /\ bury.hasImage
              THEN [exists |-> TRUE, image |-> bury.__image,
                    width |-> bury.__x, height |-> bury.__y]
              ELSE file
     IN  /\ file' = f
         /\ Construct(f, password, options)
  /\ reopens' = reopens + 1
  /\ calls' = calls + 1
  /\ UNCHANGED <<buried, compat, header, channels, probe>>

Next ==
  \/ \E c \in SetCalls : SetMessage(c.message, c.entropy)
  \/ SetEmptyMessage
  \/ GetMessage
  \/ \E options \in ReopenOptions : Reopen(options)

Spec == Init /\ [][Next]_vars

(***************************************************************************)
(* The static function testPasswordCompatibility on its own: no instance   *)
(* is involved, the passwords are the inputs of each call.                 *)
(***************************************************************************)
InitCompat ==
  LET f == CarrierFile([exists |-> FALSE, width |-> 0, height |-> 0])
  IN  /\ file = f
      /\ bury = InstanceVars(DefaultOptions)
      /\ alive = FALSE
      /\ password = ""
      /\ loaded = [width |-> 0, height |-> 0]
      /\ ops = 0
      /\ reopens = 0
      /\ calls = 0
      /\ last = NoCall
      /\ performed = FALSE
      /\ buried = NothingBuried
      /\ compat = NoCompat
      /\ header = NoHeader
      /\ channels = NoChannels
      /\ probe = NoProbe

\* Bury.testPasswordCompatibility(pass0, pass1) and
\* Bury.testPasswordCompatibility(pass0, pass1, pass2)
TestPasswords(pass0, pass1, pass2) ==
  /\ compat' = [pass0 |-> pass0, pass1 |-> pass1, pass2 |-> pass2,
                result |-> testPasswordCompatibility(pass0, pass1, pass2),
                called |-> TRUE]
  /\ UNCHANGED <<file, bury, alive, password, loaded, ops, reopens, calls, last,
                 performed, buried, header, channels, probe>>

NextCompat ==
  \E pass0 \in Passwords, pass1 \in Passwords, pass2 \in Passwords \cup {NO_PASSWORD} :
    TestPasswords(pass0, pass1, pass2)

SpecCompat == InitCompat /\ [][NextCompat]_vars

(***************************************************************************)
(* The header on its own: the two packTo calls of encrypt() that write it  *)
(* and decodeHeader() that reads it, for any msg_params byte and size.     *)
(* Each behaviour packs one header: the result depends on the inputs only. *)
(***************************************************************************)
HeaderSizes == {0, 1, 41, 255, 256, 65535, 65536, 16777215, 16777216, MAX_INT}

HeaderParts == {[nu_iv |-> <<1, 2>>, encrypted |-> <<3, 4, 5, 6>>, checksum |-> <<7, 8, 9>>],
                [nu_iv |-> <<1, 2, 3, 4>>, encrypted |-> [i \in 1..32 |-> i],
                 checksum |-> <<7, 8, 9, 10>>]}

InitHeader == InitCompat

\* decodeHeader() on a buffer that starts with the header `bytes`, and
\* what was packed.
HeaderRead(msg_params, payload_length, bytes) ==
  LET d == decodeHeader(InstanceVars(DefaultOptions), bytes)
  IN  [called |-> TRUE, msg_params |-> msg_params, payload_length |-> payload_length,
       bytes |-> SubSeq(bytes, 1, HEADER_LENGTH), returned |-> d.returned,
       compress |-> d.bury.compress, store_filename |-> d.bury.store_filename,
       __payload_size |-> d.bury.__payload_size]

\* The packTo calls of lines 1566 and 1567 on a buffer of HEADER_LENGTH
\* bytes, then decodeHeader() on it.
PackHeader(msg_params, payload_length) ==
  /\ ~header.called
  /\ header' = HeaderRead(msg_params, payload_length,
                 WriteAt(WriteAt([i \in 1..HEADER_LENGTH |-> 0], 0,
                                 Pack_HxBx(VERSION_CODE, msg_params)),
                         5, Pack_I(payload_length)))
  /\ UNCHANGED <<file, bury, alive, password, loaded, ops, reopens, calls, last,
                 performed, buried, compat, channels, probe>>

\* The buffer encrypt() packs for an IV, a ciphertext and a checksum, then
\* decodeHeader() on it.  The size recorded is the sum of the three lengths.
PackMessage(msg_params, parts) ==
  /\ ~header.called
  /\ header' = HeaderRead(msg_params,
                          Len(parts.nu_iv) + Len(parts.encrypted) + Len(parts.checksum),
                          PackPayload(msg_params, parts.nu_iv, parts.encrypted,
                                      parts.checksum, 0))
  /\ UNCHANGED <<file, bury, alive, password, loaded, ops, reopens, calls, last,
                 performed, buried, compat, channels, probe>>

NextHeader ==
  \/ \E msg_params \in 0..255, payload_length \in HeaderSizes :
       PackHeader(msg_params, payload_length)
  \/ \E msg_params \in {0, 1, 4, 5}, parts \in HeaderParts : PackMessage(msg_params, parts)

SpecHeader == InitHeader /\ [][NextHeader]_vars

(***************************************************************************)
(* The channel specification on its own: set_channel_spec() on a raster   *)
(* whose offset pixel holds a given colour, then get_channel_spec() by an  *)
(* instance constructed with the default flags.  Each behaviour writes     *)
(* one specification: the result depends on the inputs only.               *)
(***************************************************************************)
ChannelValues == {0, 1, 254, 255}

PixelValues == {colorAllocate(r, g, bl) : r \in ChannelValues, g \in ChannelValues,
                                          bl \in ChannelValues}

RasterWidth == 4
RasterHeight == 3

Offsets == {0, 6, 11}

InitChannels == InitCompat

\* An instance with the given flags over the raster `image`.
OverRaster(options, image, offset) ==
  [InstanceVars(options) EXCEPT !.__image = image, !.hasImage = TRUE,
                                !.__x = RasterWidth, !.__y = RasterHeight,
                                !.__offset = offset]

WriteChannelSpec(r, g, bl, color, offset) ==
  /\ ~channels.called
  /\ LET image == [CarrierImage(RasterWidth, RasterHeight) EXCEPT ![offset + 1] = color]
         writer == set_channel_spec(
                     OverRaster(Opt(r, g, bl, FALSE, FALSE, FALSE, FALSE), image, offset))
         reader == get_channel_spec(OverRaster(DefaultOptions, writer.__image, offset))
     IN  channels' = [called |-> TRUE,
                      written |-> [red |-> r, green |-> g, blue |-> bl],
                      read |-> [red |-> reader.enableRed, green |-> reader.enableGreen,
                                blue |-> reader.enableBlue],
                      offset |-> offset, before |-> image, after |-> writer.__image]
  /\ UNCHANGED <<file, bury, alive, password, loaded, ops, reopens, calls, last,
                 performed, buried, compat, header, probe>>

NextChannels ==
  \E r \in BOOLEAN, g \in BOOLEAN, bl \in BOOLEAN, color \in PixelValues,
     offset \in Offsets : WriteChannelSpec(r, g, bl, color, offset)

SpecChannels == InitChannels /\ [][NextChannels]_vars

(***************************************************************************)
(* The loop of demodulate() on its own, for every number of strides up to  *)
(* MaxStrides and every choice of channels.  Each behaviour makes one      *)
(* call: the result depends on the inputs only.                            *)
(***************************************************************************)
MaxStrides == 24

InitDemodulate == InitCompat

\* An instance with the given channel flags whose schedule has n strides:
\* two rows of MaxStrides + 1 pixels, offset 0, every stride `stride`.
WithStrides(r, g, bl, n, stride) ==
  [InstanceVars(Opt(r, g, bl, FALSE, FALSE, FALSE, FALSE)) EXCEPT
     !.__image = CarrierImage(MaxStrides + 1, 2), !.hasImage = TRUE,
     !.__x = MaxStrides + 1, !.__y = 2, !.__offset = 0,
     !.__strides = [i \in 1..n |-> stride]]

DemodulateStrides(r, g, bl, n, stride) ==
  /\ probe.called = "none"
  /\ LET b == WithStrides(r, g, bl, n, stride)
     IN  probe' = [called |-> "demodulate", channels |-> getBitsPerPixel(b),
                   strides |-> n, all_bytes |-> DemodulatedBytes(b)]
  /\ UNCHANGED <<file, bury, alive, password, loaded, ops, reopens, calls, last,
                 performed, buried, compat, header, channels>>

NextDemodulate ==
  \E r \in BOOLEAN, g \in BOOLEAN, bl \in BOOLEAN, n \in 0..MaxStrides, stride \in 1..2 :
    DemodulateStrides(r, g, bl, n, stride)

SpecDemodulate == InitDemodulate /\ [][NextDemodulate]_vars

(***************************************************************************)
(* demarcate_strides() on its own, for every max_stride that               *)
(* deriveParamsFromKey can give (2 + a byte mod 14) and a set of seeds.    *)
(***************************************************************************)
MaxStrideValues == {2 + (byte % 14) : byte \in 0..255}

StrideSeeds == {0, 1, 2, 3, 255, 256, 4660, 65535, 65536, 8388607, 16777215}

SeededArea == 96

InitStrides == InitCompat

DemarcateSeeded(stride_seed, max_stride) ==
  /\ probe.called = "none"
  /\ LET b == demarcate_strides(
                [InstanceVars(DefaultOptions) EXCEPT
                   !.__image = CarrierImage(SeededArea, 1), !.hasImage = TRUE,
                   !.__x = SeededArea, !.__y = 1, !.__offset = 0,
                   !.__stride_seed = stride_seed, !.__max_stride = max_stride]).bury
     IN  probe' = [called |-> "demarcate_strides", stride_seed |-> stride_seed,
                   max_stride |-> max_stride, strides |-> b.__strides]
  /\ UNCHANGED <<file, bury, alive, password, loaded, ops, reopens, calls, last,
                 performed, buried, compat, header, channels>>

NextStrides ==
  \E stride_seed \in StrideSeeds, max_stride \in MaxStrideValues :
    DemarcateSeeded(stride_seed, max_stride)

SpecStrides == InitStrides /\ [][NextStrides]_vars

(***************************************************************************)
(* getMessage() on a carrier whose schedule is too short for a header: the *)
(* carrier is a raster into which the nine bytes of a header were          *)
(* modulated over n strides, as far as they fit.                           *)
(***************************************************************************)
HeaderVersions == {VERSION_CODE, VERSION_CODE + 1}

\* The header of an empty payload with the given version.
HeaderOnly(version) ==
  WriteAt(WriteAt([i \in 1..HEADER_LENGTH |-> 0], 0, Pack_HxBx(version, 0)), 5, Pack_I(0))

\* The raster left by an instance with n strides that modulated `bytes`.
CarrierWith(r, g, bl, n, bytes) ==
  modulate([WithStrides(r, g, bl, n, 1) EXCEPT !.__ciphertext = bytes,
                                                !.__payload_size = Len(bytes)]).__image

InitShortHeader == InitCompat

GetShortMessage(r, g, bl, n, version) ==
  /\ probe.called = "none"
  /\ LET image == CarrierWith(r, g, bl, n, HeaderOnly(version))
         reader == [WithStrides(TRUE, TRUE, TRUE, n, 1) EXCEPT !.__image = image]
         m == getMessage(reader)
     IN  probe' = [called |-> "getMessage", version |-> version,
                   written |-> [red |-> r, green |-> g, blue |-> bl], strides |-> n,
                   bits |-> getBitsPerPixel(m.bury) * n,
                   result |-> m.result, ran |-> m.ran]
  /\ UNCHANGED <<file, bury, alive, password, loaded, ops, reopens, calls, last,
                 performed, buried, compat, header, channels>>

NextShortHeader ==
  \E r \in BOOLEAN, g \in BOOLEAN, bl \in BOOLEAN, n \in 0..MaxStrides,
     version \in HeaderVersions : GetShortMessage(r, g, bl, n, version)

SpecShortHeader == InitShortHeader /\ [][NextShortHeader]_vars

(***************************************************************************)
(* normalize_filename() on its own, for names of 0 to MaxName characters.  *)
(***************************************************************************)
MaxName == 40

\* A name of n characters that starts with the character `first`; its
\* characters run through 26 successive codes, so no two of its suffixes
\* of 32 characters are equal.
NameOf(n, first) == [i \in 1..n |-> first + ((i - 1) % 26)]

FirstCharacters == {48, 65, 97}

InitFilename == InitCompat

NormalizeFilename(n, first) ==
  /\ probe.called = "none"
  /\ probe' = [called |-> "normalize_filename", base_name |-> NameOf(n, first),
               returned |-> normalize_filename(NameOf(n, first))]
  /\ UNCHANGED <<file, bury, alive, password, loaded, ops, reopens, calls, last,
                 performed, buried, compat, header, channels>>

NextFilename ==
  \E n \in 0..MaxName, first \in FirstCharacters : NormalizeFilename(n, first)

SpecFilename == InitFilename /\ [][NextFilename]_vars

(***************************************************************************)
(* testPasswordCompatibility pass by pass: each pass of a while loop is a  *)
(* step.  probe.loop is the loop that is running (1, 2, 3), probe.c its    *)
(* generator state, n and array; the call returns after the last loop.     *)
(* JavaScript runs the call to its end without interruption, so a step     *)
(* that can be taken is taken: weak fairness of the steps of the call.     *)
(***************************************************************************)
InitLoops == InitCompat

\* The passwords of the call, in the order of the loops.
Given(pass0, pass1, pass2) ==
  IF pass2 # NO_PASSWORD THEN <<pass0, pass1, pass2>> ELSE <<pass0, pass1>>

\* test_limit: the largest offset among params0, params1 and, when pass2
\* is given, params2.
LoopLimit(params) ==
  LET limit01 == Max(params[1].offset, params[2].offset)
  IN  IF Len(params) = 3 THEN Max(limit01, params[3].offset) ELSE limit01

\* rng.seed(params.stride_seed); n = params.offset;
LoopStart(params) ==
  [rng |-> rng_seed(params.stride_seed), n |-> params.offset, strides |-> <<>>]

\* The call up to its first loop: params0, params1, params2 and test_limit.
BeginTest(pass0, pass1, pass2) ==
  /\ probe.called = "none"
  /\ LET passwords == Given(pass0, pass1, pass2)
         derived == [k \in 1..Len(passwords) |-> deriveParamsFromKey(passwords[k])]
         params == [k \in 1..Len(passwords) |->
                      [offset |-> derived[k].offset, max_stride |-> derived[k].max_stride,
                       stride_seed |-> derived[k].stride_seed]]
     IN  probe' = [called |-> "testPasswordCompatibility",
                   passwords |-> passwords, params |-> params,
                   test_limit |-> LoopLimit(params),
                   loop |-> 1, c |-> LoopStart(params[1]), strides |-> <<>>,
                   returned |-> "pending"]
  /\ UNCHANGED <<file, bury, alive, password, loaded, ops, reopens, calls, last,
                 performed, buried, compat, header, channels>>

\* The call is inside one of its while loops.
InLoop ==
  /\ probe.called = "testPasswordCompatibility"
  /\ probe.loop <= Len(probe.passwords)

\* while (n < test_limit) { n += rng.rand(max_stride); strides.push(n); }
LoopPass ==
  /\ InLoop
  /\ probe.c.n < probe.test_limit
  /\ probe' = [probe EXCEPT !.c = CompatStep(probe.c, probe.params[probe.loop].max_stride)]
  /\ UNCHANGED <<file, bury, alive, password, loaded, ops, reopens, calls, last,
                 performed, buried, compat, header, channels>>

\* The loop condition fails: on to the next loop, if there is one.
LoopExit ==
  /\ InLoop
  /\ probe.c.n >= probe.test_limit
  /\ probe' = [probe EXCEPT
                 !.loop = @ + 1,
                 !.strides = Append(@, probe.c.strides),
                 !.c = IF probe.loop < Len(probe.passwords)
                       THEN LoopStart(probe.params[probe.loop + 1])
                       ELSE probe.c]
  /\ UNCHANGED <<file, bury, alive, password, loaded, ops, reopens, calls, last,
                 performed, buried, compat, header, channels>>

\* The indexOf tests on strides0, strides1, strides2 (probe.strides) that
\* set return_value.
LoopVerdict(params, strides) ==
  IF Len(params) = 3
  THEN IF Contains(strides[2], params[3].offset) \/ Contains(strides[1], params[3].offset)
       THEN FALSE
       ELSE IF Contains(strides[3], params[2].offset) \/ Contains(strides[1], params[2].offset)
       THEN FALSE
       ELSE IF Contains(strides[2], params[1].offset) \/ Contains(strides[3], params[1].offset)
       THEN FALSE
       ELSE TRUE
  ELSE IF Contains(strides[2], params[1].offset) \/ Contains(strides[1], params[2].offset)
       THEN FALSE
       ELSE TRUE

\* return return_value;
ReturnResult ==
  /\ probe.called = "testPasswordCompatibility"
  /\ probe.loop > Len(probe.passwords)
  /\ probe.returned = "pending"
  /\ probe' = [probe EXCEPT !.returned =
                 IF LoopVerdict(probe.params, probe.strides) THEN "true" ELSE "false"]
  /\ UNCHANGED <<file, bury, alive, password, loaded, ops, reopens, calls, last,
                 performed, buried, compat, header, channels>>

NextLoops ==
  \/ \E pass0 \in Passwords, pass1 \in Passwords, pass2 \in Passwords \cup {NO_PASSWORD} :
       BeginTest(pass0, pass1, pass2)
  \/ LoopPass
  \/ LoopExit
  \/ ReturnResult

\* The steps of a call that has begun; whether a call is made at all is up
\* to the caller.
RunTest == LoopPass \/ LoopExit \/ ReturnResult

SpecLoops == InitLoops /\ [][NextLoops]_vars /\ WF_vars(RunTest)

(***************************************************************************)
(* The stride seed of deriveParamsFromKey over digests: the digest of a    *)
(* password is any 32 bytes, so the digests are drawn instead of the       *)
(* passwords.  Bytes 4, 5, 11, 18 and 25 are the first bytes of the four   *)
(* groups the mixer reads (and a second byte of the first group).          *)
(***************************************************************************)
InitSeed == InitCompat

FirstGroupBytes == {0, 1, 127, 128, 255}
SecondBytes == {0, 255}
GroupBytes == {0, 1, 255}

\* A digest as toByteArray returns it (hash_arr[i] of the source is
\* element i + 1).
DigestWith(b4, b5, b11, b18, b25) ==
  [i \in 1..32 |->
     CASE i = 5 -> b4
       [] i = 6 -> b5
       [] i = 12 -> b11
       [] i = 19 -> b18
       [] i = 26 -> b25
       [] OTHER -> 0]

\* The digest with hash_arr[4..10] set to zero.
WithoutFirstGroup(hash_arr) ==
  [i \in 1..32 |-> IF i \in 5..11 THEN 0 ELSE hash_arr[i]]

\* The mixer loop and the recombination, on one digest.
DeriveSeed(b4, b5, b11, b18, b25) ==
  /\ probe.called = "none"
  /\ LET hash_arr == DigestWith(b4, b5, b11, b18, b25)
     IN  probe' = [called |-> "deriveParamsFromKey", hash_arr |-> hash_arr,
                   mixer_array |-> mixer_array(hash_arr),
                   stride_seed |-> params_stride_seed(hash_arr)]
  /\ UNCHANGED <<file, bury, alive, password, loaded, ops, reopens, calls, last,
                 performed, buried, compat, header, channels>>

NextSeed ==
  \E b4 \in FirstGroupBytes, b5 \in SecondBytes,
     b11 \in GroupBytes, b18 \in GroupBytes, b25 \in GroupBytes :
    DeriveSeed(b4, b5, b11, b18, b25)

SpecSeed == InitSeed /\ [][NextSeed]_vars

(***************************************************************************)
(* Properties of the library.                                              *)
(***************************************************************************)
\* The call just made is a getMessage on a fresh instance over the carrier
\* that a fresh instance with the same password wrote a message into.
ReadsBuried ==
  /\ last.op = "getMessage"
  /\ ops = 1
  /\ alive
  /\ buried.valid
  /\ buried.password = password

\* C1: a message of length >= 1 that setMessage wrote with a password of
\* at least MIN_PASS_LENGTH characters is what getMessage returns on a
\* fresh instance over the written carrier with the same password.
C1_RoundTrip ==
  ReadsBuried => (last.result = "message" /\ last.value = buried.message)

\* C2: once an instance has modulated or demodulated its image, a further
\* setMessage or getMessage on it is refused: it returns false and leaves
\* the image, the framed buffer and the bit cursor as they were.
C2_OneOperation ==
  [][(performed /\ ops' = ops + 1)
       => /\ last'.result = "false"
          /\ bury'.__image = bury.__image
          /\ bury'.__ciphertext = bury.__ciphertext
          /\ bury'.__bitCursor = bury.__bitCursor]_vars

\* floor(bits_per_pixel * |strides| / 8) for the instance b.
CapacityOf(b) == (getBitsPerPixel(b) * Len(b.__strides)) \div 8

\* C3: a setMessage that framed its message succeeds only if the framed
\* length is at most floor(bits_per_pixel * |strides| / 8) of the instance
\* it was called on; when the framed length is larger it returns false
\* and changes no pixel.
C3_CapacityCheck ==
  [][(last'.op = "setMessage" /\ ops' = ops + 1 /\ "encrypt" \in last'.ran)
       => /\ last'.result = "true" => bury'.__payload_size <= CapacityOf(bury)
          /\ bury'.__payload_size > CapacityOf(bury)
               => (last'.result = "false" /\ bury'.__image = bury.__image)]_vars

\* The payload that demodulate() reads from the image of b carries, in its
\* last 16 bytes, the MD5 of the ciphertext that follows its IV.
StoredChecksumMatches(b) ==
  LET bytes == DemodulatedBytes(b)
      payload == SliceFrom(bytes, HEADER_LENGTH)
      payload_size == IF Len(bytes) >= HEADER_LENGTH THEN Unpack_I(bytes, 5) ELSE 0
  IN  /\ payload_size >= IV_SIZE + MD5_SIZE
      /\ payload_size <= Len(payload)
      /\ SubSeq(payload, payload_size - MD5_SIZE + 1, payload_size)
           = toByteArray(MD5(SubSeq(payload, IV_SIZE + 1, payload_size - MD5_SIZE)))

\* C4: when the checksum stored in the payload is not the MD5 of the stored
\* ciphertext, getMessage returns false and decrypt() is never called.
C4_ChecksumGate ==
  (last.op = "getMessage" /\ ops = 1 /\ alive /\ bury.hasImage
     /\ ~StoredChecksumMatches(bury))
    => (last.result = "false" /\ "decrypt" \notin last.ran)

\* C5: with a password shorter than MIN_PASS_LENGTH the constructor gives
\* an instance whose key, stride seed, maximum stride and offset are
\* unset, and setMessage and getMessage on it return false and leave the
\* carrier as it was loaded.
C5_ShortPassword ==
  Len(password) < MIN_PASS_LENGTH
    => /\ alive
       /\ bury.__key = <<>>
       /\ bury.__stride_seed = -1
       /\ bury.__max_stride = -1
       /\ bury.__offset = -1
       /\ bury.__image = file.image
       /\ last.op \in {"setMessage", "getMessage"} => last.result = "false"

\* C6: after a setMessage with rescaleCarrier on, the image has at most as
\* many pixels as the carrier that was loaded: rescale_carrier shrinks the
\* image or leaves it as it was.
C6_NeverEnlarges ==
  (alive /\ last.op = "setMessage" /\ bury.rescaleCarrier)
    => /\ bury.__x * bury.__y <= loaded.width * loaded.height
       /\ Len(bury.__image) = bury.__x * bury.__y

\* A setMessage with rescaleCarrier on has replaced the carrier by a
\* smaller copy and written the message into it.
C6_Shrunk ==
  /\ alive
  /\ last.op = "setMessage"
  /\ last.result = "true"
  /\ bury.rescaleCarrier
  /\ last.rescaled
  /\ bury.__x * bury.__y < loaded.width * loaded.height

\* C7: when rescale_carrier has adopted the rescaled image, the strides
\* demarcated over it carry every bit of the framed message, and modulate
\* has written every bit.
C7_RescaledFits ==
  (alive /\ last.op = "setMessage" /\ ops = 1 /\ last.rescaled)
    => /\ getBitsPerPixel(bury) * Len(bury.__strides) >= 8 * bury.__payload_size
       /\ bury.__bitCursor = 8 * bury.__payload_size

\* modulate has just written the framed buffer into the image.
Modulated ==
  /\ alive
  /\ last.op = "setMessage"
  /\ "modulate" \in last.ran
  /\ getBitsPerPixel(bury) > 0

\* The first k bytes that demodulate reads with the channels, offset and
\* strides of the instance are the first k bytes of its framed buffer.
PrefixReadBack(k) ==
  LET bytes == DemodulatedBytes(bury)
  IN  /\ Len(bytes) >= k
      /\ SubSeq(bytes, 1, k) = SubSeq(bury.__ciphertext, 1, k)

Decoded(g) ==
  [result |-> g.result, value |-> g.value, ciphertext |-> g.bury.__ciphertext,
   payload_size |-> g.bury.__payload_size, compress |-> g.bury.compress,
   store_filename |-> g.bury.store_filename, enableRed |-> g.bury.enableRed,
   enableGreen |-> g.bury.enableGreen, enableBlue |-> g.bury.enableBlue]

\* getMessage on a fresh instance over the current file, with the current
\* password and the given options.
DecodedWith(options) ==
  Decoded(getMessage(Bury(file.exists, file.image, file.width, file.height,
                          password, options).bury))

\* C9: what getMessage decodes from a loaded carrier depends on the carrier
\* and the password alone: an instance constructed with other channel, compression and
\* filename options decodes the same.
C9_OptionsIgnored ==
  (last.op = "getMessage" /\ ops = 1 /\ alive /\ bury.hasImage)
    => /\ Decoded([result |-> last.result, value |-> last.value, bury |-> bury])
            = DecodedWith(DefaultOptions)
       /\ DecodedWith(Opt(FALSE, FALSE, FALSE, FALSE, FALSE, FALSE, FALSE))
            = DecodedWith(DefaultOptions)

\* A carrier written with all three channels is read by an instance that
\* was constructed with the red channel alone, and the payload is found.
C9_ReadWithOtherOptions ==
  /\ ReadsBuried
  /\ bury.hasImage
  /\ reopens >= 1
  /\ bury.enableRed /\ bury.enableGreen /\ bury.enableBlue
  /\ bury.__max_size < CapacityOf(bury)
  /\ "verify_checksum" \in last.ran

\* The pixels an encoder modulates: the running sums of its strides from
\* its offset.
PixelsStep(strides, r) ==
  [n |-> r.n + 1, at |-> r.at + strides[r.n + 1],
   pixels |-> r.pixels \cup {r.at + strides[r.n + 1]}]

RECURSIVE PixelsChunk(_, _, _)
PixelsChunk(strides, r, k) ==
  IF k = 0 \/ r.n >= Len(strides) THEN r
  ELSE PixelsChunk(strides, PixelsStep(strides, r), k - 1)

RECURSIVE PixelsLoop(_, _)
PixelsLoop(strides, r) ==
  IF r.n >= Len(strides) THEN r
  ELSE PixelsLoop(strides, PixelsChunk(strides, r, Chunk))

\* The pixels that an instance with password pw modulates on the 16 x 16
\* carrier.
EncoderPixels(pw) ==
  LET params == deriveParamsFromKey(pw)
      strides == StridesFor(params.stride_seed, params.max_stride, params.offset,
                            16 * 16, <<>>)
  IN  PixelsLoop(strides, [n |-> 0, at |-> params.offset, pixels |-> {}]).pixels

\* The passwords of the last call of testPasswordCompatibility.
Tested ==
  {compat.pass0, compat.pass1}
    \cup (IF compat.pass2 # NO_PASSWORD THEN {compat.pass2} ELSE {})

\* C10: when testPasswordCompatibility returns true for passwords that a
\* constructor accepts, no password's offset pixel, which carries the
\* channel specification, is a pixel that an encoder with another of the
\* passwords modulates.
C10_OffsetsProtected ==
  (compat.called /\ compat.result /\ \A pw \in Tested : Len(pw) >= MIN_PASS_LENGTH)
    => \A X \in Tested, Y \in Tested :
         X # Y => deriveParamsFromKey(X).offset \notin EncoderPixels(Y)

\* C11: testPasswordCompatibility(P, P) returns false for every password P.
C11_SelfIncompatible ==
  (compat.called /\ compat.pass0 = compat.pass1 /\ compat.pass2 = NO_PASSWORD)
    => compat.result = FALSE

\* The largest offset among the passwords of the last call: the pixel up to
\* which testPasswordCompatibility generates its stride pixels.
TestLimit ==
  CHOOSE m \in {deriveParamsFromKey(pw).offset : pw \in Tested} :
    \A pw \in Tested : deriveParamsFromKey(pw).offset <= m

\* The stride pixels testPasswordCompatibility generates for password pw
\* in the last call.
GeneratedFor(pw) ==
  LET strides == CompatStrides(deriveParamsFromKey(pw), TestLimit)
  IN  {strides[i] : i \in 1..Len(strides)}

\* The passwords of the last call, in the order of the arguments.
Arguments ==
  IF compat.pass2 # NO_PASSWORD THEN <<compat.pass0, compat.pass1, compat.pass2>>
  ELSE <<compat.pass0, compat.pass1>>

\* No argument's offset is a stride pixel generated for another argument.
NoOffsetGenerated(args) ==
  \A i \in 1..Len(args), j \in 1..Len(args) :
    i # j => deriveParamsFromKey(args[i]).offset \notin GeneratedFor(args[j])

Encrypted ==
  LET compressed == IF bury.compress THEN compressBlock(bury.__plaintext)
                    ELSE bury.__plaintext
      cipherObj == AES_encrypt(compressed, bury.__key, last.entropy.iv)
      encrypted == toByteArray(cipherObj.ciphertext)
  IN  [nu_iv |-> toByteArray(cipherObj.iv),
       encrypted |-> encrypted,
       checksum |-> toByteArray(MD5(encrypted))]

\* The call just made is a setMessage whose encrypt() packed a buffer.
Packed == last.op = "setMessage" /\ "encrypt" \in last.ran

\* C13: in the buffer encrypt() builds, bytes 0..8 are the header, the next
\* 16 bytes are the IV, then comes the ciphertext, and the MD5 checksum is
\* the final 16 bytes; the three regions are disjoint and fill the payload,
\* so no ciphertext byte is overwritten and no byte is left unwritten.
C13_PayloadLayout ==
  Packed =>
    LET buf == bury.__ciphertext
        e == Encrypted
        n == Len(buf)
    IN  /\ n = HEADER_LENGTH + IV_SIZE + Len(e.encrypted) + MD5_SIZE
        /\ Len(e.nu_iv) = IV_SIZE
        /\ Len(e.checksum) = MD5_SIZE
        /\ SubSeq(buf, HEADER_LENGTH + 1, HEADER_LENGTH + IV_SIZE) = e.nu_iv
        /\ SubSeq(buf, HEADER_LENGTH + IV_SIZE + 1, n - MD5_SIZE) = e.encrypted
        /\ SubSeq(buf, n - MD5_SIZE + 1, n) = e.checksum


IndicesStep(strides, r) ==
  [n |-> r.n + 1, at |-> r.at + strides[r.n + 1],
   indices |-> Append(r.indices, r.at + strides[r.n + 1])]

RECURSIVE IndicesChunk(_, _, _)
IndicesChunk(strides, r, k) ==
  IF k = 0 \/ r.n >= Len(strides) THEN r
  ELSE IndicesChunk(strides, IndicesStep(strides, r), k - 1)

RECURSIVE IndicesLoop(_, _)
IndicesLoop(strides, r) ==
  IF r.n >= Len(strides) THEN r
  ELSE IndicesLoop(strides, IndicesChunk(strides, r, Chunk))

PixelIndices(b) ==
  IndicesLoop(b.__strides, [n |-> 0, at |-> b.__offset, indices |-> <<>>]).indices

\* C16: after construction and after any accepted rescale every stride is
\* at least 1, the pixel indices it leads to are strictly increasing, all
\* above the offset and all below width * height of the current raster,
\* and the stride array holds exactly the schedule of the current raster.
C16_StrideSchedule ==
  (alive /\ bury.hasImage /\ Len(password) >= MIN_PASS_LENGTH) =>
    LET indices == PixelIndices(bury)
    IN  /\ Len(indices) = Len(bury.__strides)
        /\ \A k \in 1..Len(indices) :
             /\ bury.__strides[k] >= 1
             /\ indices[k] > (IF k = 1 THEN bury.__offset ELSE indices[k - 1])
             /\ indices[k] > bury.__offset
             /\ indices[k] < bury.__x * bury.__y
        /\ bury.__strides = StridesFor(bury.__stride_seed, bury.__max_stride,
                                       bury.__offset, bury.__x * bury.__y, <<>>)

\* An instance that holds strides after a rescale was accepted.
C16_RescaledSchedule ==
  /\ alive
  /\ last.op = "setMessage"
  /\ last.rescaled
  /\ Len(bury.__strides) > 1


\* The two byte ranges verify_checksum() takes from __ciphertext: the one
\* it hashes and the one it compares the hash with.
ChecksumRanges(b) ==
  [msg |-> Slice(b.__ciphertext, 0, ChecksumIndex(b)),
   chksum |-> SliceFrom(b.__ciphertext, ChecksumIndex(b))]

\* C17: the writer and the reader agree on what the checksum covers:
\* encrypt() hashes the ciphertext alone, and verify_checksum(), run on the
\* buffer encrypt() packed, hashes exactly that byte range and compares the
\* hash with exactly the 16 bytes that follow it.
C17_ChecksumCoverage ==
  Packed =>
    LET buf == bury.__ciphertext
        first == HEADER_LENGTH + IV_SIZE
        size == Len(Encrypted.encrypted)
        read == decodeHeader(bury, buf).bury
        ranges == ChecksumRanges(read)
    IN  /\ Encrypted.checksum = toByteArray(MD5(Encrypted.encrypted))
        /\ ranges.msg = SubSeq(buf, first + 1, first + size)
        /\ verify_checksum(read).bury.__ciphertext = ranges.msg
        /\ ranges.chksum = SubSeq(buf, first + size + 1, first + size + MD5_SIZE)


\* The enabled channels in the order red, blue, green.
ChannelOrder(b) ==
  (IF b.enableRed THEN <<"red">> ELSE <<>>)
    \o (IF b.enableBlue THEN <<"blue">> ELSE <<>>)
    \o (IF b.enableGreen THEN <<"green">> ELSE <<>>)

\* The least significant bit of a channel of a colour.
ChannelLSB(color, channel) ==
  IF channel = "red" THEN (color \div 65536) % 2
  ELSE IF channel = "green" THEN (color \div 256) % 2
  ELSE color % 2

\* The bit that position k of the stream occupies in the image of b: the
\* LSB of the (k mod bpp)-th enabled channel, in the order red, blue, green,
\* of the pixel the (k div bpp)-th stride leads to.
CarriedBit(b, indices, k) ==
  LET bpp == getBitsPerPixel(b)
      abs_pix == indices[(k \div bpp) + 1]
  IN  ChannelLSB(imageColorAt(b.__image, b.__x, b.__y,
                              get_x_coords_by_linear(b, abs_pix),
                              get_y_coords_by_linear(b, abs_pix)),
                 ChannelOrder(b)[(k % bpp) + 1])

\* C18: modulate() and demodulate() both take the channels of a pixel in
\* the order red, blue, green, and bit k of the stream is bit (k mod 8),
\* least significant first, of byte floor(k / 8): after modulate() the
\* image carries bit k of the buffer at position k, and demodulate() puts
\* the bit at position k into bit (k mod 8) of byte floor(k / 8).
C18_ChannelAndBitOrder ==
  (Modulated /\ ~bury.visibleResult) =>
    LET indices == PixelIndices(bury)
        carried == getBitsPerPixel(bury) * Len(bury.__strides)
        bytes == DemodulatedBytes(bury)
    IN  /\ \A k \in 0..(Min(8 * Len(bury.__ciphertext), carried) - 1) :
             CarriedBit(bury, indices, k) = BitOf(bury.__ciphertext[(k \div 8) + 1], k % 8)
        /\ \A k \in 0..((8 * (carried \div 8)) - 1) :
             BitOf(bytes[(k \div 8) + 1], k % 8) = CarriedBit(bury, indices, k)

\* All three channels carry a buffer longer than its header.
C18_ThreeChannelsWritten ==
  /\ Modulated
  /\ ~bury.visibleResult
  /\ Len(ChannelOrder(bury)) = 3
  /\ bury.__bitCursor > 8 * HEADER_LENGTH


\* The upper 7 bits of the three channels of a colour.
UpperBits(color) ==
  [red |-> ((color \div 65536) % 256) \div 2,
   green |-> ((color \div 256) % 256) \div 2,
   blue |-> (color % 256) \div 2]

\* C19: for each of the 8 combinations of channel flags and every value of
\* the offset pixel, get_channel_spec() after set_channel_spec() reads the
\* flags that were written; set_channel_spec() leaves the upper 7 bits of
\* every channel of the offset pixel, and every other pixel, as they were.
C19_ChannelSpecRoundTrip ==
  channels.called =>
    /\ channels.read = channels.written
    /\ Len(channels.after) = Len(channels.before)
    /\ UpperBits(channels.after[channels.offset + 1])
         = UpperBits(channels.before[channels.offset + 1])
    /\ \A p \in 1..Len(channels.before) :
         p # channels.offset + 1 => channels.after[p] = channels.before[p]

\* A specification with green alone written over a white pixel that is not
\* on the diagonal of the raster, and read back.
C19_GreenOverWhite ==
  /\ channels.called
  /\ channels.written = [red |-> FALSE, green |-> TRUE, blue |-> FALSE]
  /\ channels.before[channels.offset + 1] = colorAllocate(255, 255, 255)
  /\ channels.after[channels.offset + 1] = colorAllocate(254, 255, 254)
  /\ channels.offset = 6


\* What modulate() may change of the image `before` of an instance b, with
\* `after` the image it leaves: nothing outside the offset pixel and the
\* pixels the strides lead to, no upper 7 bits of any channel anywhere, and
\* at a pixel a stride leads to no lowest bit of a channel that is not
\* enabled.
ModulationFrame(b, before, after) ==
  LET indices == PixelIndices(b)
      strided == {indices[k] : k \in 1..Len(indices)}
  IN  /\ Len(after) = Len(before)
      /\ \A p \in 0..(Len(before) - 1) :
           /\ UpperBits(after[p + 1]) = UpperBits(before[p + 1])
           /\ (p # b.__offset /\ p \notin strided) => after[p + 1] = before[p + 1]
           /\ p \in strided =>
                /\ ~b.enableRed
                     => ChannelLSB(after[p + 1], "red") = ChannelLSB(before[p + 1], "red")
                /\ ~b.enableGreen
                     => ChannelLSB(after[p + 1], "green") = ChannelLSB(before[p + 1], "green")
                /\ ~b.enableBlue
                     => ChannelLSB(after[p + 1], "blue") = ChannelLSB(before[p + 1], "blue")

\* C20: with visibleResult off and no rescale, a setMessage that modulates
\* changes no pixel other than the offset pixel and the pixels its strides
\* lead to, changes the upper 7 bits of no channel of any pixel, and at a
\* pixel a stride leads to leaves the lowest bit of a disabled channel.
C20_ModulationFrame ==
  [][(last'.op = "setMessage" /\ "modulate" \in last'.ran /\ ops' = ops + 1
        /\ ~bury.visibleResult /\ ~last'.rescaled)
       => ModulationFrame(bury', bury.__image, bury'.__image)]_vars

\* A modulation without rescale, by an instance with a disabled channel,
\* has changed a pixel its strides lead to.
C20_ModulatedWithDisabledChannel ==
  /\ Modulated
  /\ ~bury.visibleResult
  /\ ~last.rescaled
  /\ Len(ChannelOrder(bury)) < 3
  /\ Len(bury.__strides) > 0
  /\ bury.__image # file.image


\* C21: modulate() run again with the same byte stream, channels, offset
\* and strides over the raster the first run produced changes no pixel.
C21_ModulateIdempotent ==
  Modulated => modulate(bury).__image = bury.__image

\* A modulation with visibleResult off that changed pixels of the carrier
\* and wrote payload bits that are 1.
C21_ModulatedOnce ==
  /\ Modulated
  /\ ~bury.visibleResult
  /\ Len(bury.__strides) > 8
  /\ bury.__bitCursor > 0
  /\ bury.__image # file.image


\* C22: for every stride count and every non-empty choice of channels the
\* byte array demodulate() builds has exactly
\* ceil(enabled_channels * |strides| / 8) elements, also when
\* enabled_channels * |strides| is a multiple of 8.
C22_DemodulatedLength ==
  (probe.called = "demodulate" /\ probe.channels > 0)
    => Len(probe.all_bytes) = ((probe.channels * probe.strides) + 7) \div 8


\* C23: every stride demarcate_strides() draws lies in 1..(max_stride - 1),
\* for every max_stride in 2..15; for max_stride = 2 every stride is 1.
C23_StrideRange ==
  probe.called = "demarcate_strides" =>
    /\ probe.max_stride \in 2..15
    /\ \A k \in 1..Len(probe.strides) :
         /\ probe.strides[k] >= 1
         /\ probe.strides[k] <= probe.max_stride - 1
         /\ probe.max_stride = 2 => probe.strides[k] = 1

\* A schedule for the largest max_stride that holds both ends of the range.
C23_BothEndsDrawn ==
  /\ probe.called = "demarcate_strides"
  /\ probe.max_stride = 15
  /\ \E k \in 1..Len(probe.strides) : probe.strides[k] = 14
  /\ \E k \in 1..Len(probe.strides) : probe.strides[k] = 1


\* The call just made is a getMessage on an instance that holds an image.
\* getMessage changes neither the image nor the strides, and the channel
\* flags it leaves are the ones it read from the offset pixel.
ReadImage ==
  /\ alive
  /\ last.op = "getMessage"
  /\ bury.hasImage

\* C24: when the version in the first two demodulated bytes is not 0x0002,
\* decodeHeader() returns false, verify_checksum() and decrypt() do not
\* run, and getMessage returns false.
C24_VersionCheck ==
  (ReadImage /\ Len(DemodulatedBytes(bury)) >= 2
     /\ Unpack_H(DemodulatedBytes(bury), 0) # 2)
    => /\ last.ran = {"decodeHeader"}
       /\ last.result = "false"

\* A getMessage that demodulated a whole header of another version.
C24_OtherVersionRead ==
  /\ ReadImage
  /\ Len(DemodulatedBytes(bury)) >= HEADER_LENGTH
  /\ Unpack_H(DemodulatedBytes(bury), 0) # 2
  /\ last.result = "false"


\* C25: when the schedule of the carrier yields fewer than 9 demodulated
\* bytes, the case of no stride included, getMessage fails: the header is
\* rejected, neither verify_checksum() nor decrypt() runs on fields taken
\* from bytes that were never demodulated, and the call returns false.
C25_ShortHeader ==
  (probe.called = "getMessage" /\ probe.bits < 8 * HEADER_LENGTH)
    => /\ probe.result = "false"
       /\ probe.ran \subseteq {"decodeHeader"}


\* C26: the byte encrypt() writes at offset 3 of the header has bit 0 set
\* exactly when compression is on, bit 1 always set, and bit 2 set exactly
\* when a filename is prepended; decodeHeader() takes compress from bit 0
\* and store_filename from bit 2 whatever bit 1 is.
C26_MessageParamsFlags ==
  Packed =>
    LET msg_params == bury.__ciphertext[4]
        read == decodeHeader(bury, bury.__ciphertext).bury
        other == decodeHeader(bury, [bury.__ciphertext EXCEPT
                                       ![4] = IF (msg_params \div 2) % 2 = 1
                                              THEN msg_params - 2 ELSE msg_params + 2]).bury
    IN  /\ (msg_params % 2 = 1) <=> bury.compress
        /\ (msg_params \div 2) % 2 = 1
        /\ ((msg_params \div 4) % 2 = 1) <=> bury.store_filename
        /\ read.compress = (msg_params % 2 = 1)
        /\ read.store_filename = ((msg_params \div 4) % 2 = 1)
        /\ other.compress = read.compress
        /\ other.store_filename = read.store_filename


C28_NormalizedFilename ==
  probe.called = "normalize_filename" =>
    LET name == probe.base_name
        n == Len(name)
        returned == probe.returned
    IN  /\ Len(returned) = 32
        /\ (n >= 1 /\ n <= 32) =>
             /\ SubSeq(returned, 32 - n + 1, 32) = name
             /\ \A i \in 1..(32 - n) : returned[i] = SPACE
        /\ n > 32 => returned = SubSeq(name, n - 31, n)
        /\ n = 0 => returned = BadExtensionName

\* A name longer than 32 characters was cut to its end.
C28_LongNameCut ==
  /\ probe.called = "normalize_filename"
  /\ Len(probe.base_name) = 40
  /\ probe.returned[32] = probe.base_name[40]
  /\ probe.returned[1] = probe.base_name[9]


====
